---------------------------- MODULE Spec2Model ----------------------------
(***************************************************************************)
(* Segment-matching engine of gpx-viewer: the spatial grid index and its   *)
(* cache (utils/spatialIndex.ts, workers/segmentMatcher.worker.ts), the    *)
(* matcher entry points (utils/segmentMatcher.ts), the worker dispatcher   *)
(* (hooks/useSegmentMatcherWorker.ts) and the debounced recalculation of   *)
(* the track store (store/useTrackStore.ts).                               *)
(*                                                                         *)
(* Geometry is fixed point.  One coordinate unit is 1/1110 degree, so that *)
(* the grid's "cellSizeKm / 111" degrees is 10 * cellSizeKm units; lengths *)
(* are in hectometres (hm, 100 m), so cellSizeKm = 0.5 is a cell of 5      *)
(* units and deltaMeters = 300 is 3 hm.  Array indices keep the 0-based    *)
(* values of the source; At(s, i) reads element i of a 0-based array.      *)
(***************************************************************************)
EXTENDS Integers, Sequences, FiniteSets, TLC

VARIABLES
  tracks,                 \* store: GpxTrack[] (id, visible; points by id)
  matchingSettings,       \* store: [enabled, delta]
  matchedSegments,        \* store: MatchedSegment[]
  isMatchingLoading,      \* store: boolean
  matchingDebounceTimer,  \* store module: timer handle, 0 is null
  timers,                 \* host: the timers set so far, by handle: pending, fired or cleared
  worker,                 \* dispatcher module: "null" or "created"
  pendingCallback,        \* dispatcher module: request whose onComplete is stored, 0 is null
  workerInbox,            \* messages posted to the worker, not yet handled
  mainInbox,              \* message/error events of the worker, not yet handled
  idleQueue,              \* fallback: calculate() closures waiting for idle time
  gridCache,              \* utils/spatialIndex.ts gridCache (main thread)
  workerGridCache,        \* worker's gridCache
  requests,               \* history: number of calls of calculateMatchingSegmentsAsync
  invocations,            \* history: worker results handled, in order: [cb, from]
  edits,                  \* history: number of store operations performed
  env,                    \* host: [workers |-> whether new Worker(...) succeeds]
  call,                   \* direct call of a pure function: arguments and result
  selectedTrackId,        \* store: id of the selected track, 0 is null
  trackSegments           \* store: Record<string, TrackSegment>, by track id

vars == << tracks, matchingSettings, matchedSegments, isMatchingLoading,
           matchingDebounceTimer, timers, worker, pendingCallback,
           workerInbox, mainInbox, idleQueue, gridCache, workerGridCache,
           requests, invocations, edits, env, call, selectedTrackId, trackSegments >>

(***************************************************************************)
(* Bounds of the model                                                     *)
(***************************************************************************)
\* store operations the user may perform in one behaviour
MaxEdits == 3
\* points of a track handed directly to the grid
MaxGridPoints == 2
\* requests handed in a row to the matcher of utils and to the worker's
MaxRuns == 2
\* largest index of a track point the user may click
MaxPointIndex == 2

(***************************************************************************)
(* Generic helpers                                                         *)
(***************************************************************************)
At(s, i) == s[i + 1]

Max2(a, b) == IF a >= b THEN a ELSE b

Min2(a, b) == IF a <= b THEN a ELSE b

Abs(a) == IF a < 0 THEN -a ELSE a

\* Math.ceil(a / b) for b > 0
CeilDiv(a, b) == -((-a) \div b)

RECURSIVE IndicesOf(_, _, _)
\* 0-based indices i >= k of s, ascending, with At(s, i) = v
IndicesOf(s, v, k) ==
  IF k >= Len(s) THEN << >>
  ELSE IF At(s, k) = v THEN << k >> \o IndicesOf(s, v, k + 1)
       ELSE IndicesOf(s, v, k + 1)

(***************************************************************************)
(* Geodesy: utils/distance.ts                                              *)
(***************************************************************************)
\* Latitude of 60 degrees north in coordinate units.
Lat60 == 66600

\* cos^2(latitude) * 4 of the latitude band a point lies in: 4 on the
\* equator (cos = 1), 1 around 60 degrees north (cos = 1/2).
Cos2x4(lat) == IF lat >= Lat60 - 1000 THEN 1 ELSE 4

\* R * pi / 180 = 111.195 km per degree against the grid's 111: a unit of
\* latitude is 571/570 hm long.
HavNum == 571
HavDen == 570

\* the distance on one axis, in units, beyond which the model stops measuring
FarUnits == 25

\* haversineDistance, squared and scaled by (2 * HavDen)^2, in hm^2.  For the
\* distances of the model (a few km) the great-circle distance is
\* R * sqrt(dLat^2 + cos(lat)^2 * dLon^2) up to a relative error below 1e-5.
\* Points further apart than FarUnits (2.5 km, five times the largest
\* threshold of the matcher) on an axis count as FarUnits apart on it.
haversineDistance(lat1, lon1, lat2, lon2) ==
  LET dLat == Min2(Abs(lat2 - lat1), FarUnits)
      dLon == Min2(Abs(lon2 - lon1), FarUnits)
  IN HavNum * HavNum * (4 * dLat * dLat + Cos2x4(lat1) * dLon * dLon)

\* a length in metres (a multiple of 5) on the scale of haversineDistance
DistScaleM(m) ==
  IF m < 0 THEN -1 ELSE ((2 * HavDen * m) \div 100) * ((2 * HavDen * m) \div 100)

\* a length in hm on the scale of haversineDistance
DistScale(hm) == DistScaleM(100 * hm)

(***************************************************************************)
(* Spatial grid: utils/spatialIndex.ts, workers/segmentMatcher.worker.ts   *)
(***************************************************************************)
\* getCellKey: `${cellX},${cellY}`
getCellKey(lat, lng, cellSize) == << lng \div cellSize, lat \div cellSize >>

\* buildIndex: cell key -> indices of the points of the cell, in insertion order
buildIndex(points, cellSize) ==
  LET keyOf(i) == getCellKey(At(points, i).lat, At(points, i).lng, cellSize)
      keys == { keyOf(i) : i \in 0 .. Len(points) - 1 }
  IN [ k \in keys |-> IndicesOf([ i \in 1 .. Len(points) |-> keyOf(i - 1) ], k, 0) ]

\* new SpatialGrid(points, cellSizeKm); cellHm is cellSizeKm * 10
SpatialGrid(points, cellHm) ==
  [ points |-> points, cellSize |-> cellHm, grid |-> buildIndex(points, cellHm) ]

NoResult == [ index |-> -1, distance |-> -1 ]

RECURSIVE ScanCandidates(_, _, _, _, _, _)
\* the loop body "if (dist < nearestDist && dist <= maxDistanceKm)" over the
\* candidate indices cand, carrying (nearestIdx, nearestDist)
ScanCandidates(points, cand, lat, lng, maxHm, best) ==
  IF cand = << >> THEN best
  ELSE LET index == Head(cand)
           dist == haversineDistance(lat, lng, At(points, index).lat, At(points, index).lng)
           better == (best.index = -1 \/ dist < best.distance) /\ dist <= DistScale(maxHm)
       IN ScanCandidates(points, Tail(cand), lat, lng, maxHm,
                         IF better THEN [ index |-> index, distance |-> dist ] ELSE best)

RECURSIVE CellWalk(_, _, _, _, _, _)
\* candidate indices in the order of "for dx ... for dy ... for cellPoints"
CellWalk(g, cx, cy, r, dx, dy) ==
  IF dx > r THEN << >>
  ELSE IF dy > r THEN CellWalk(g, cx, cy, r, dx + 1, -r)
  ELSE LET key == << cx + dx, cy + dy >>
           cellPoints == IF key \in DOMAIN g.grid THEN g.grid[key] ELSE << >>
       IN cellPoints \o CellWalk(g, cx, cy, r, dx, dy + 1)

\* SpatialGrid.findNearestWithinDistance; null is NoResult
findNearestWithinDistance(g, lat, lng, maxHm) ==
  LET searchRadius == CeilDiv(maxHm, g.cellSize)
      centerCellX == lng \div g.cellSize
      centerCellY == lat \div g.cellSize
  IN ScanCandidates(g.points,
                    CellWalk(g, centerCellX, centerCellY, searchRadius, -searchRadius, -searchRadius),
                    lat, lng, maxHm, NoResult)

\* the exhaustive scan the grid is compared with: the first point at minimal
\* distance among those within maxHm
LinearScan(points, lat, lng, maxHm) ==
  ScanCandidates(points, [ i \in 1 .. Len(points) |-> i - 1 ], lat, lng, maxHm, NoResult)

(***************************************************************************)
(* Grid cache                                                              *)
(***************************************************************************)
\* gridCache.get(trackId) of an absent key
NoEntry == [ pointCount |-> -1 ]

\* a cache that answers by track id alone
CacheHitById(cache, trackId, points) == trackId \in DOMAIN cache

\* "cached && cached.pointCount === points.length"
CacheHit(cache, trackId, points) ==
  /\ trackId \in DOMAIN cache
  /\ cache[trackId].pointCount = Len(points)

\* dropped entry of a Map
MapSet(m, k, v) == [ x \in DOMAIN m \cup {k} |-> IF x = k THEN v ELSE m[x] ]

\* getSpatialGrid: the grid returned and the cache after the call
getSpatialGrid(cache, trackId, points, cellHm) ==
  IF CacheHit(cache, trackId, points)
  THEN [ grid |-> cache[trackId].grid, cache |-> cache, built |-> FALSE ]
  ELSE LET Stored(grid) ==
             [ grid |-> grid,
               cache |-> MapSet(cache, trackId, [ grid |-> grid, pointCount |-> Len(points) ]),
               built |-> TRUE ]
       IN Stored(SpatialGrid(points, cellHm))

\* clearGridCache
clearGridCache(cache) == << >>

(***************************************************************************)
(* Matcher constants: utils/segmentMatcher.ts (the worker repeats them)    *)
(***************************************************************************)
MIN_SEGMENT_POINTS == 8
\* MIN_SEGMENT_DISTANCE_KM = 0.08, in metres
MIN_SEGMENT_DISTANCE_M == 80
POINT_SAMPLE_RATE == 3
MAX_INDEX_GAP == 30
\* MERGE_GAP_KM = 0.25, in metres
MERGE_GAP_M == 250
\* OVERLAP_THRESHOLD = 0.2 as the fraction 1 / 5
OVERLAP_THRESHOLD_DEN == 5
ADAPTIVE_MIN_RATE == 1
ADAPTIVE_MAX_RATE == 5
ADAPTIVE_TARGET_POINTS == 500

Algorithms == { "standard", "adaptive", "bidirectional" }

\* a sample rate that ignores the length of the track
FixedSampleRate(trackLength) == POINT_SAMPLE_RATE

\* getAdaptiveSampleRate
getAdaptiveSampleRate(trackLength) ==
  IF trackLength <= ADAPTIVE_TARGET_POINTS THEN ADAPTIVE_MIN_RATE
  ELSE Min2(CeilDiv(trackLength, ADAPTIVE_TARGET_POINTS), ADAPTIVE_MAX_RATE)

(***************************************************************************)
(* Bearings, in whole degrees (rounded down)                               *)
(***************************************************************************)
\* tan(t degrees) * 10000 for t = 0 .. 45
Tan10000 ==
  << 0, 174, 349, 524, 699, 874, 1051, 1227, 1405, 1583, 1763, 1943, 2125,
     2308, 2493, 2679, 2867, 3057, 3249, 3443, 3639, 3838, 4040, 4244, 4452,
     4663, 4877, 5095, 5317, 5543, 5773, 6008, 6248, 6494, 6745, 7002, 7265,
     7535, 7812, 8097, 8390, 8692, 9004, 9325, 9656, 10000 >>

\* atan(a / b) in degrees for 0 <= a <= b, b > 0
AtanDeg(a, b) ==
  CHOOSE t \in 0 .. 45 :
    /\ At(Tan10000, t) * b <= 10000 * a
    /\ t < 45 => At(Tan10000, t + 1) * b > 10000 * a

\* Math.atan2(y, x) in degrees, counted from the x axis towards the y axis,
\* in 0 .. 359; atan2(0, 0) is 0
Atan2Deg(y, x) ==
  LET ay == Abs(y)
      ax == Abs(x)
      first == IF ay = 0 /\ ax = 0 THEN 0
               ELSE IF ay <= ax THEN AtanDeg(ay, ax) ELSE 90 - AtanDeg(ax, ay)
      exact == ay = 0 \/ ax = 0 \/ ay = ax
      \* angles are rounded down after the reflection
      refl(a) == IF exact THEN a ELSE a - 1
  IN IF x >= 0 /\ y >= 0 THEN first
     ELSE IF x < 0 /\ y >= 0 THEN refl(180 - first)
     ELSE IF x < 0 /\ y < 0 THEN 180 + first
     ELSE (refl(360 - first)) % 360

\* calculateBearing: atan2(sin(dLon) cos(lat2), cos(lat1) sin(lat2) -
\* sin(lat1) cos(lat2) cos(dLon)), locally atan2(cos(lat) dLon, dLat)
calculateBearing(lat1, lon1, lat2, lon2) ==
  LET cos2 == IF Cos2x4(lat1) = 4 THEN 2 ELSE 1
  IN Atan2Deg(cos2 * (lon2 - lon1), 2 * (lat2 - lat1))

\* a comparison of bearings that does not go around the circle
plainDifference(bearing1, bearing2, tolerance) ==
  Abs(bearing1 - bearing2) <= tolerance

\* bearingsAreSimilar
bearingsAreSimilar(bearing1, bearing2, tolerance) ==
  LET d == Abs(bearing1 - bearing2)
      diff == IF d > 180 THEN 360 - d ELSE d
  IN diff <= tolerance

\* bearingToDirection: directions[Math.round(bearing / 45) % 8]
bearingToDirection(bearing) ==
  At(<< "N", "NE", "E", "SE", "S", "SW", "W", "NW" >>, ((2 * bearing + 45) \div 90) % 8)

\* calculateSegmentDirection
calculateSegmentDirection(points) ==
  IF Len(points) < 2 THEN [ bearing |-> 0, label |-> "N" ]
  ELSE LET start == points[1]
           end == points[Len(points)]
           bearing == calculateBearing(start.lat, start.lng, end.lat, end.lng)
       IN [ bearing |-> bearing, label |-> bearingToDirection(bearing) ]

(***************************************************************************)
(* Distances as numbers                                                    *)
(***************************************************************************)
RECURSIVE ISqrtBin(_, _, _)
\* largest r in lo .. hi with r * r <= n
ISqrtBin(n, lo, hi) ==
  IF lo >= hi THEN lo
  ELSE LET mid == (lo + hi + 1) \div 2
       IN IF mid * mid <= n THEN ISqrtBin(n, mid, hi) ELSE ISqrtBin(n, lo, mid - 1)

ISqrt(n) == ISqrtBin(n, 0, Min2(n, 46340))

\* a haversineDistance value in metres, rounded down
Metres(d) == (ISqrt(d) * 100) \div (2 * HavDen)

(***************************************************************************)
(* Polyline reducer.  Path coordinates are in 1/60 unit, so that the       *)
(* moving averages over 3, 4 or 5 points are exact; distances between path *)
(* points (in degrees in the source) are in 1/600 unit.                    *)
(***************************************************************************)
PathScale == 60

\* the default tolerance 0.000015 degrees, in 1/600 unit
SimplifyTolerance == 10

ToPath(p) == [ lat |-> PathScale * p.lat, lng |-> PathScale * p.lng ]

\* perpendicularDistance, in 1/600 unit; with a chord of length zero the
\* source returns kilometres, which the caller reads as degrees
perpendicularDistance(point, lineStart, lineEnd) ==
  LET dx == lineEnd.lng - lineStart.lng
      dy == lineEnd.lat - lineStart.lat
      len2 == dx * dx + dy * dy
      px == point.lng - lineStart.lng
      py == point.lat - lineStart.lat
      dot == px * dx + py * dy
      lat0 == lineStart.lat \div PathScale
  IN IF len2 = 0
     THEN ((HavNum * ISqrt(100 * (4 * py * py + Cos2x4(lat0) * px * px))) \div (2 * HavDen)) * 111
     ELSE IF dot <= 0 THEN ISqrt(100 * (px * px + py * py))
     ELSE IF dot >= len2
          THEN ISqrt(100 * ((point.lng - lineEnd.lng) * (point.lng - lineEnd.lng)
                            + (point.lat - lineEnd.lat) * (point.lat - lineEnd.lat)))
     ELSE (100 * Abs(px * dy - py * dx)) \div ISqrt(100 * len2)

RECURSIVE MaxStep(_, _, _, _)
\* a reducer that measures each point from its predecessor, not from the chord
MaxStep(points, i, maxDist, maxIdx) ==
  IF i >= Len(points) - 1 THEN [ maxDist |-> maxDist, maxIdx |-> maxIdx ]
  ELSE LET Compare(dist) ==
             IF dist > maxDist THEN MaxStep(points, i + 1, dist, i)
             ELSE MaxStep(points, i + 1, maxDist, maxIdx)
       IN Compare(ISqrt(100 * ((At(points, i).lng - At(points, i - 1).lng)
                                 * (At(points, i).lng - At(points, i - 1).lng)
                               + (At(points, i).lat - At(points, i - 1).lat)
                                 * (At(points, i).lat - At(points, i - 1).lat))))

RECURSIVE MaxPerp(_, _, _, _)
\* the loop "for (i = 1; i < points.length - 1; i++)" of simplifyPolyline,
\* carrying (maxDist, maxIdx)
MaxPerp(points, i, maxDist, maxIdx) ==
  IF i >= Len(points) - 1 THEN [ maxDist |-> maxDist, maxIdx |-> maxIdx ]
  ELSE LET Compare(dist) ==
             IF dist > maxDist THEN MaxPerp(points, i + 1, dist, i)
             ELSE MaxPerp(points, i + 1, maxDist, maxIdx)
       IN Compare(perpendicularDistance(At(points, i), points[1], points[Len(points)]))

RECURSIVE RadialFilter(_, _, _, _)
\* a reducer that drops each point within the tolerance of the last point kept
RadialFilter(points, tolerance, i, kept) ==
  IF i >= Len(points) THEN kept
  ELSE LET last == kept[Len(kept)]
           dist == ISqrt(100 * ((At(points, i).lng - last.lng) * (At(points, i).lng - last.lng)
                                + (At(points, i).lat - last.lat) * (At(points, i).lat - last.lat)))
       IN IF dist > tolerance
          THEN RadialFilter(points, tolerance, i + 1, Append(kept, At(points, i)))
          ELSE RadialFilter(points, tolerance, i + 1, kept)

dropClosePoints(points, tolerance) ==
  IF Len(points) <= 2 THEN points
  ELSE RadialFilter(points, tolerance, 1, << points[1] >>)

RECURSIVE simplifyPolyline(_, _)
simplifyPolyline(points, tolerance) ==
  IF Len(points) <= 2 THEN points
  ELSE LET Joined(left, right) == SubSeq(left, 1, Len(left) - 1) \o right
           Split(m) ==
             IF m.maxDist > tolerance
             THEN Joined(simplifyPolyline(SubSeq(points, 1, m.maxIdx + 1), tolerance),
                         simplifyPolyline(SubSeq(points, m.maxIdx + 1, Len(points)), tolerance))
             ELSE << points[1], points[Len(points)] >>
       IN Split(MaxPerp(points, 1, 0, 0))

RECURSIVE SumRange(_, _, _)
SumRange(f, lo, hi) == IF lo > hi THEN 0 ELSE f[lo] + SumRange(f, lo + 1, hi)

\* a moving average that leaves the averaged ends in place
movingAverage(points, windowSize) ==
  IF Len(points) <= windowSize THEN [ i \in 1 .. Len(points) |-> ToPath(points[i]) ]
  ELSE LET halfWindow == windowSize \div 2
           n == Len(points)
           lo(i) == Max2(0, i - halfWindow)
           hi(i) == Min2(n - 1, i + halfWindow)
       IN [ i \in 1 .. n |->
              [ lat |-> (PathScale * SumRange([ j \in 1 .. n |-> points[j].lat ], lo(i - 1) + 1, hi(i - 1) + 1))
                          \div (hi(i - 1) - lo(i - 1) + 1),
                lng |-> (PathScale * SumRange([ j \in 1 .. n |-> points[j].lng ], lo(i - 1) + 1, hi(i - 1) + 1))
                          \div (hi(i - 1) - lo(i - 1) + 1) ] ]

\* smoothPolyline of points given in units; the result is in 1/60 unit
smoothPolyline(points, windowSize) ==
  IF Len(points) <= windowSize THEN [ i \in 1 .. Len(points) |-> ToPath(points[i]) ]
  ELSE LET halfWindow == windowSize \div 2
           n == Len(points)
           lo(i) == Max2(0, i - halfWindow)
           hi(i) == Min2(n - 1, i + halfWindow)
           count(i) == hi(i) - lo(i) + 1
           avg(i) ==
             [ lat |-> (PathScale * SumRange([ j \in 1 .. n |-> points[j].lat ], lo(i) + 1, hi(i) + 1))
                         \div count(i),
               lng |-> (PathScale * SumRange([ j \in 1 .. n |-> points[j].lng ], lo(i) + 1, hi(i) + 1))
                         \div count(i) ]
       IN [ i \in 1 .. n |->
              IF i = 1 \/ i = n THEN ToPath(points[i]) ELSE avg(i - 1) ]

(***************************************************************************)
(* Stable sorting, as Array.prototype.sort                                 *)
(***************************************************************************)
RECURSIVE InsertByKey(_, _, _)
\* position i inserted into the sorted positions, behind every position
\* whose key is not greater
InsertByKey(sorted, i, keys) ==
  IF sorted = << >> THEN << i >>
  ELSE IF keys[Head(sorted)] > keys[i] THEN << i >> \o sorted
       ELSE << Head(sorted) >> \o InsertByKey(Tail(sorted), i, keys)

RECURSIVE SortedPositions(_, _)
\* the positions 1 .. n in ascending order of their keys, stably
SortedPositions(keys, n) ==
  IF n = 0 THEN << >> ELSE InsertByKey(SortedPositions(keys, n - 1), n, keys)

\* a sort that leaves the list as it is
NoSort(s, keys) == s

\* s sorted by ascending keys (keys[i] is the key of s[i]), stably
StableSort(s, keys) ==
  LET perm == SortedPositions(keys, Len(s))
  IN [ k \in 1 .. Len(s) |-> s[perm[k]] ]

RECURSIVE MinOf(_)
MinOf(s) == IF Len(s) = 1 THEN s[1] ELSE Min2(s[1], MinOf(Tail(s)))

RECURSIVE MaxOf(_)
MaxOf(s) == IF Len(s) = 1 THEN s[1] ELSE Max2(s[1], MaxOf(Tail(s)))

IndexAs(seg) == [ i \in 1 .. Len(seg) |-> seg[i].indexA ]

IndexBs(seg) == [ i \in 1 .. Len(seg) |-> seg[i].indexB ]

(***************************************************************************)
(* Grouping and merging: utils/segmentMatcher.ts                           *)
(***************************************************************************)
\* calculateSegmentBearing
calculateSegmentBearing(segment) ==
  IF Len(segment) < 2 THEN 0
  ELSE LET first == segment[1]
           last == segment[Len(segment)]
       IN calculateBearing(first.pointA.lat, first.pointA.lng, last.pointA.lat, last.pointA.lng)

\* segmentsHaveSameDirection, tolerance 60
segmentsHaveSameDirection(seg1, seg2) ==
  bearingsAreSimilar(calculateSegmentBearing(seg1), calculateSegmentBearing(seg2), 60)

\* segmentsOverlap
segmentsOverlap(seg1, seg2, skipDirectionCheck) ==
  IF ~skipDirectionCheck /\ ~segmentsHaveSameDirection(seg1, seg2) THEN FALSE
  ELSE LET seg1StartA == MinOf(IndexAs(seg1))
           seg1EndA == MaxOf(IndexAs(seg1))
           seg2StartA == MinOf(IndexAs(seg2))
           seg2EndA == MaxOf(IndexAs(seg2))
           overlapStart == Max2(seg1StartA, seg2StartA)
           overlapEnd == Min2(seg1EndA, seg2EndA)
           overlapLength == overlapEnd - overlapStart
           minLength == Min2(seg1EndA - seg1StartA, seg2EndA - seg2StartA)
       IN IF overlapEnd < overlapStart THEN FALSE
          ELSE minLength > 0 /\ OVERLAP_THRESHOLD_DEN * overlapLength >= minLength

\* segmentsAreSpatiallyClose
segmentsAreSpatiallyClose(seg1, seg2, skipDirectionCheck) ==
  IF ~skipDirectionCheck /\ ~segmentsHaveSameDirection(seg1, seg2) THEN FALSE
  ELSE LET seg1Start == seg1[1]
           seg1End == seg1[Len(seg1)]
           seg2Start == seg2[1]
           seg2End == seg2[Len(seg2)]
           d(a, b) == haversineDistance(a.pointA.lat, a.pointA.lng, b.pointA.lat, b.pointA.lng)
           minDist == MinOf(<< d(seg1Start, seg2Start), d(seg1End, seg2End),
                               d(seg1Start, seg2End), d(seg1End, seg2Start) >>)
       IN minDist <= DistScaleM(MERGE_GAP_M * 2)

RECURSIVE AddMissing(_, _)
\* the second loop of mergeSegmentPoints: points of seg2 whose indexA is new
AddMissing(acc, seg2) ==
  IF seg2 = << >> THEN acc
  ELSE IF \E k \in 1 .. Len(acc) : acc[k].indexA = Head(seg2).indexA
       THEN AddMissing(acc, Tail(seg2))
       ELSE AddMissing(Append(acc, Head(seg2)), Tail(seg2))

RECURSIVE SetAll(_, _)
\* the first loop of mergeSegmentPoints: pointMap.set(indexA, point) keeps
\* the place of the first insertion and the value of the last
SetAll(acc, seg1) ==
  IF seg1 = << >> THEN acc
  ELSE LET p == Head(seg1)
       IN IF \E k \in 1 .. Len(acc) : acc[k].indexA = p.indexA
          THEN SetAll([ k \in 1 .. Len(acc) |-> IF acc[k].indexA = p.indexA THEN p ELSE acc[k] ],
                      Tail(seg1))
          ELSE SetAll(Append(acc, p), Tail(seg1))

\* mergeSegmentPoints
mergeSegmentPoints(seg1, seg2) ==
  LET ByIndexA(all) == StableSort(all, IndexAs(all))
  IN ByIndexA(AddMissing(SetAll(<< >>, seg1), seg2))

RECURSIVE MergeNearbyLoop(_, _, _, _)
MergeNearbyLoop(segments, i, currentMerged, merged) ==
  IF i >= Len(segments)
  THEN IF Len(currentMerged) >= MIN_SEGMENT_POINTS THEN Append(merged, currentMerged) ELSE merged
  ELSE LET prevEnd == currentMerged[Len(currentMerged)]
           nextStart == At(segments, i)[1]
           gapDist == haversineDistance(prevEnd.pointA.lat, prevEnd.pointA.lng,
                                        nextStart.pointA.lat, nextStart.pointA.lng)
       IN IF gapDist <= DistScaleM(MERGE_GAP_M)
          THEN MergeNearbyLoop(segments, i + 1, currentMerged \o At(segments, i), merged)
          ELSE MergeNearbyLoop(segments, i + 1, At(segments, i),
                               IF Len(currentMerged) >= MIN_SEGMENT_POINTS
                               THEN Append(merged, currentMerged) ELSE merged)

\* mergeNearbySegments
mergeNearbySegments(segments) ==
  IF Len(segments) <= 1 THEN segments
  ELSE MergeNearbyLoop(segments, 1, segments[1], << >>)

RECURSIVE MergeOverlapLoop(_, _, _, _, _)
MergeOverlapLoop(sorted, i, current, result, skipDirectionCheck) ==
  IF i >= Len(sorted)
  THEN IF Len(current) >= MIN_SEGMENT_POINTS THEN Append(result, current) ELSE result
  ELSE LET next == At(sorted, i)
       IN IF \/ segmentsOverlap(current, next, skipDirectionCheck)
             \/ segmentsAreSpatiallyClose(current, next, skipDirectionCheck)
          THEN MergeOverlapLoop(sorted, i + 1, mergeSegmentPoints(current, next), result,
                                skipDirectionCheck)
          ELSE MergeOverlapLoop(sorted, i + 1, next,
                                IF Len(current) >= MIN_SEGMENT_POINTS
                                THEN Append(result, current) ELSE result,
                                skipDirectionCheck)

\* mergeOverlappingSegments
mergeOverlappingSegments(segments, algorithm) ==
  IF Len(segments) <= 1 THEN segments
  ELSE LET Merge(sorted) ==
             MergeOverlapLoop(sorted, 1, sorted[1], << >>, algorithm = "bidirectional")
       IN Merge(StableSort(segments,
                           [ i \in 1 .. Len(segments) |-> MinOf(IndexAs(segments[i])) ]))

(***************************************************************************)
(* Tracks.  A GpxTrack is [id, visible]; its elevation array (the points)  *)
(* is a function of the id, since an id is a UUID given to one parsed file.*)
(***************************************************************************)
\* n points from (lat0, lng0) in steps of (dLat, dLng)
Line(lat0, lng0, dLat, dLng, n) ==
  [ i \in 1 .. n |-> [ lat |-> lat0 + (i - 1) * dLat, lng |-> lng0 + (i - 1) * dLng ] ]

\* 1: 22 points northwards; 2: the same route 100 m further east;
\* 3: 10 points northwards along the middle of route 1, 100 m to its west;
\* 4: route 2 travelled southwards; 5: 5 points; 6: 12 points, the first
\* eight along route 1, then far away to the east; 7: route 1 travelled
\* southwards; 8: the first 8 points of route 1; 9: route 8 travelled
\* southwards; 10 and 11: 8 fixes of a receiver that does not move; 12: route
\* 1 loaded a second time; 13: a single point; 14: no point; 15: 100 m east
\* of route 1, first its points 10 to 13, then its points 0 to 8; 16: the
\* first 9 points of route 1, 32 fixes at a halt far to the east, and the
\* next 9 points of route 1; 17: 9 points northwards, then 9 points back
\* southwards 100 m east of the way out; 18: the same two legs, the way back
\* recorded first; 19: the last 8 points of route 1, then its first 8 points
Elevation(id) ==
  CASE id = 1 -> Line(0, 0, 1, 0, 22)
    [] id = 2 -> Line(0, 1, 1, 0, 22)
    [] id = 3 -> Line(6, -1, 1, 0, 10)
    [] id = 4 -> Line(21, 1, -1, 0, 22)
    [] id = 5 -> Line(0, 0, 1, 0, 5)
    [] id = 6 -> Line(0, 0, 1, 0, 8) \o Line(7, 12, 0, 1, 4)
    [] id = 7 -> Line(21, 0, -1, 0, 22)
    [] id = 8 -> Line(0, 0, 1, 0, 8)
    [] id = 9 -> Line(7, 0, -1, 0, 8)
    [] id \in { 10, 11 } -> Line(0, 0, 0, 0, 8)
    [] id = 12 -> Line(0, 0, 1, 0, 22)
    [] id = 13 -> Line(0, 0, 1, 0, 1)
    [] id = 14 -> << >>
    [] id = 15 -> Line(10, 1, 1, 0, 4) \o Line(0, 1, 1, 0, 9)
    [] id = 16 -> Line(0, 0, 1, 0, 9) \o Line(8, 12, 0, 0, 32) \o Line(9, 0, 1, 0, 9)
    [] id = 17 -> Line(0, 0, 1, 0, 9) \o Line(8, 1, -1, 0, 9)
    [] id = 18 -> Line(8, 1, -1, 0, 9) \o Line(0, 0, 1, 0, 9)
    [] id = 19 -> Line(14, 0, 1, 0, 8) \o Line(0, 0, 1, 0, 8)

TrackIds == 1 .. 19

(***************************************************************************)
(* Matching of one pair: utils/segmentMatcher.ts                           *)
(***************************************************************************)
\* deltaKm = deltaMeters / 1000, in hm
DeltaHm(deltaMeters) == deltaMeters \div 100

\* Math.max(deltaKm * 2, 0.5), in hm
CellHm(deltaMeters) == Max2(2 * DeltaHm(deltaMeters), 5)

\* findNearestPointWithinDelta: the nearest point and the cache afterwards
findNearestPointWithinDelta(cache, point, trackBId, trackBPoints, deltaMeters) ==
  LET Lookup(got) ==
        [ nearest |-> findNearestWithinDistance(got.grid, point.lat, point.lng,
                                                DeltaHm(deltaMeters)),
          cache |-> got.cache ]
  IN Lookup(getSpatialGrid(cache, trackBId, trackBPoints, CellHm(deltaMeters)))

\* the bearing test of the sampling loop for the sample i matched to indexB
BearingRejects(pointsA, pointsB, i, indexB, sampleRate, checkBearing) ==
  /\ checkBearing /\ i > 0 /\ indexB > 0
  /\ LET prevIdxA == Max2(0, i - sampleRate)
         prevIdxB == Max2(0, indexB - sampleRate)
         pointA == At(pointsA, i)
         pointB == At(pointsB, indexB)
         bearingA == calculateBearing(At(pointsA, prevIdxA).lat, At(pointsA, prevIdxA).lng,
                                      pointA.lat, pointA.lng)
         bearingB == calculateBearing(At(pointsB, prevIdxB).lat, At(pointsB, prevIdxB).lng,
                                      pointB.lat, pointB.lng)
     IN ~bearingsAreSimilar(bearingA, bearingB, 45)

\* a matching point that records the index of track B as that of track A too
MatchingPointByB(pointsA, pointsB, i, indexB) ==
  [ pointA |-> At(pointsA, i), pointB |-> At(pointsB, indexB), indexA |-> indexB, indexB |-> indexB ]

MatchingPoint(pointsA, pointsB, i, indexB) ==
  [ pointA |-> At(pointsA, i), pointB |-> At(pointsB, indexB), indexA |-> i, indexB |-> indexB ]

RECURSIVE SampleLoop(_, _, _, _, _, _, _, _, _)
\* the loop "for (i = 0; i < pointsA.length; i += sampleRate)" of
\* findMatchesBetweenTracks: the matching points and the cache afterwards
SampleLoop(cache, pointsA, trackBId, pointsB, deltaMeters, sampleRate, checkBearing, i, acc) ==
  IF i >= Len(pointsA) THEN [ matchingPoints |-> acc, cache |-> cache ]
  ELSE LET Step(found) ==
             IF \/ found.nearest = NoResult
                \/ BearingRejects(pointsA, pointsB, i, found.nearest.index, sampleRate,
                                  checkBearing)
             THEN SampleLoop(found.cache, pointsA, trackBId, pointsB, deltaMeters, sampleRate,
                             checkBearing, i + sampleRate, acc)
             ELSE SampleLoop(found.cache, pointsA, trackBId, pointsB, deltaMeters, sampleRate,
                             checkBearing, i + sampleRate,
                             Append(acc, MatchingPoint(pointsA, pointsB, i, found.nearest.index)))
       IN Step(findNearestPointWithinDelta(cache, At(pointsA, i), trackBId, pointsB,
                                           deltaMeters))

RECURSIVE SumSteps(_, _)
\* the distance loop of createSegment, in metres
SumSteps(rawPoints, i) ==
  IF i >= Len(rawPoints) THEN 0
  ELSE Metres(haversineDistance(At(rawPoints, i - 1).lat, At(rawPoints, i - 1).lng,
                                At(rawPoints, i).lat, At(rawPoints, i).lng))
       + SumSteps(rawPoints, i + 1)

\* a segment whose path is made of the matched points of track A only
createSegmentOfMatches(matchingPoints, trackA, trackB) ==
  LET Segment(sortedPoints, sortedByB, rawPoints, points, dir) ==
        [ id |-> << trackA.id, trackB.id, matchingPoints[1].indexA >>,
          trackAId |-> trackA.id,
          trackBId |-> trackB.id,
          points |-> points,
          distance |-> SumSteps(rawPoints, 1),
          direction |-> dir.bearing,
          directionLabel |-> dir.label,
          startIndexA |-> sortedPoints[1].indexA,
          endIndexA |-> sortedPoints[Len(sortedPoints)].indexA,
          startIndexB |-> sortedByB[1].indexB,
          endIndexB |-> sortedByB[Len(sortedByB)].indexB ]
      Directed(sortedPoints, sortedByB, rawPoints, points) ==
        Segment(sortedPoints, sortedByB, rawPoints, points, calculateSegmentDirection(points))
      Reduced(sortedPoints, sortedByB, rawPoints) ==
        Directed(sortedPoints, sortedByB, rawPoints,
                 simplifyPolyline(smoothPolyline(rawPoints, 5), SimplifyTolerance))
      Sorted(sortedPoints, sortedByB) ==
        Reduced(sortedPoints, sortedByB,
                [ k \in 1 .. Len(sortedPoints) |-> sortedPoints[k].pointA ])
  IN Sorted(StableSort(matchingPoints, IndexAs(matchingPoints)),
            StableSort(matchingPoints, IndexBs(matchingPoints)))

\* a segment whose id names the pair only
createSegmentIdOfPair(matchingPoints, trackA, trackB) ==
  [ createSegmentOfMatches(matchingPoints, trackA, trackB) EXCEPT !.id = << trackA.id, trackB.id >> ]

\* createSegment
createSegment(matchingPoints, trackA, trackB) ==
  LET Segment(sortedPoints, sortedByB, rawPoints, points, dir) ==
        [ id |-> << trackA.id, trackB.id, matchingPoints[1].indexA >>,
          trackAId |-> trackA.id,
          trackBId |-> trackB.id,
          points |-> points,
          distance |-> SumSteps(rawPoints, 1),
          direction |-> dir.bearing,
          directionLabel |-> dir.label,
          startIndexA |-> sortedPoints[1].indexA,
          endIndexA |-> sortedPoints[Len(sortedPoints)].indexA,
          startIndexB |-> sortedByB[1].indexB,
          endIndexB |-> sortedByB[Len(sortedByB)].indexB ]
      \* const dir = calculateSegmentDirection(points)
      Directed(sortedPoints, sortedByB, rawPoints, points) ==
        Segment(sortedPoints, sortedByB, rawPoints, points, calculateSegmentDirection(points))
      \* simplifyPolyline(smoothPolyline(rawPoints, 5))
      Reduced(sortedPoints, sortedByB, rawPoints) ==
        Directed(sortedPoints, sortedByB, rawPoints,
                 simplifyPolyline(smoothPolyline(rawPoints, 5), SimplifyTolerance))
      \* "if (rawPoints.length < 2) rawPoints.push(...sortedPoints.map(mp => mp.pointA))"
      Raw(sortedPoints, ranged) ==
        IF Len(ranged) < 2
        THEN ranged \o [ k \in 1 .. Len(sortedPoints) |-> sortedPoints[k].pointA ]
        ELSE ranged
      \* the loop "for (i = startIdxA; i <= endIdxA && i < trackAPoints.length; i++)"
      Ranged(startIdxA, endIdxA, trackAPoints) ==
        [ k \in 1 .. Max2(0, Min2(endIdxA, Len(trackAPoints) - 1) - startIdxA + 1) |->
            At(trackAPoints, startIdxA + k - 1) ]
      Sorted(sortedPoints, sortedByB) ==
        Reduced(sortedPoints, sortedByB,
                Raw(sortedPoints,
                    Ranged(sortedPoints[1].indexA, sortedPoints[Len(sortedPoints)].indexA,
                           Elevation(trackA.id))))
  IN Sorted(StableSort(matchingPoints, IndexAs(matchingPoints)),
            StableSort(matchingPoints, IndexBs(matchingPoints)))

RECURSIVE GroupByGaps(_, _, _, _, _)
\* a grouping that looks at the index gaps only
GroupByGaps(matchingPoints, i, currentSegmentPoints, rawSegments, allowOppositeProgression) ==
  IF i >= Len(matchingPoints)
  THEN IF Len(currentSegmentPoints) >= MIN_SEGMENT_POINTS
       THEN Append(rawSegments, currentSegmentPoints) ELSE rawSegments
  ELSE LET current == At(matchingPoints, i)
       IN IF currentSegmentPoints = << >>
          THEN GroupByGaps(matchingPoints, i + 1, << current >>, rawSegments, allowOppositeProgression)
          ELSE LET lastPoint == currentSegmentPoints[Len(currentSegmentPoints)]
               IN IF /\ Abs(current.indexA - lastPoint.indexA) <= MAX_INDEX_GAP
                     /\ Abs(current.indexB - lastPoint.indexB) <= MAX_INDEX_GAP
                  THEN GroupByGaps(matchingPoints, i + 1, Append(currentSegmentPoints, current),
                                   rawSegments, allowOppositeProgression)
                  ELSE GroupByGaps(matchingPoints, i + 1, << current >>,
                                   IF Len(currentSegmentPoints) >= MIN_SEGMENT_POINTS
                                   THEN Append(rawSegments, currentSegmentPoints) ELSE rawSegments,
                                   allowOppositeProgression)

RECURSIVE GroupLoop(_, _, _, _, _)
\* the grouping loop of groupIntoSegments, carrying (currentSegmentPoints,
\* rawSegments); the result is rawSegments with the last segment added
GroupLoop(matchingPoints, i, currentSegmentPoints, rawSegments, allowOppositeProgression) ==
  IF i >= Len(matchingPoints)
  THEN IF Len(currentSegmentPoints) >= MIN_SEGMENT_POINTS
       THEN Append(rawSegments, currentSegmentPoints) ELSE rawSegments
  ELSE LET current == At(matchingPoints, i)
       IN IF currentSegmentPoints = << >>
          THEN GroupLoop(matchingPoints, i + 1, << current >>, rawSegments, allowOppositeProgression)
          ELSE LET lastPoint == currentSegmentPoints[Len(currentSegmentPoints)]
                   indexGapA == Abs(current.indexA - lastPoint.indexA)
                   indexGapB == Abs(current.indexB - lastPoint.indexB)
                   isProgressingA == current.indexA > lastPoint.indexA
                   isProgressingB == current.indexB > lastPoint.indexB
                   sameProgression == isProgressingA = isProgressingB
                   progressionOk == allowOppositeProgression \/ sameProgression
                   isConsecutive == /\ indexGapA <= MAX_INDEX_GAP
                                    /\ indexGapB <= MAX_INDEX_GAP
                                    /\ progressionOk
               IN IF isConsecutive
                  THEN GroupLoop(matchingPoints, i + 1, Append(currentSegmentPoints, current),
                                 rawSegments, allowOppositeProgression)
                  ELSE GroupLoop(matchingPoints, i + 1, << current >>,
                                 IF Len(currentSegmentPoints) >= MIN_SEGMENT_POINTS
                                 THEN Append(rawSegments, currentSegmentPoints) ELSE rawSegments,
                                 allowOppositeProgression)

RECURSIVE CreateLoop(_, _, _)
\* the last loop of groupIntoSegments: the segments created from the groups
\* that are at least MIN_SEGMENT_DISTANCE_KM long
CreateLoop(fullyMerged, trackA, trackB) ==
  IF fullyMerged = << >> THEN << >>
  ELSE LET Keep(segment) ==
             IF segment.distance >= MIN_SEGMENT_DISTANCE_M
             THEN << segment >> \o CreateLoop(Tail(fullyMerged), trackA, trackB)
             ELSE CreateLoop(Tail(fullyMerged), trackA, trackB)
       IN Keep(createSegment(Head(fullyMerged), trackA, trackB))

\* a grouping that makes one segment of all the matching points
GroupAsOne(matchingPoints, trackA, trackB, algorithm) ==
  IF matchingPoints = << >> THEN << >>
  ELSE CreateLoop(<< matchingPoints >>, trackA, trackB)

\* groupIntoSegments
groupIntoSegments(matchingPoints, trackA, trackB, algorithm) ==
  IF Len(matchingPoints) < MIN_SEGMENT_POINTS THEN << >>
  ELSE LET rawSegments == GroupLoop(matchingPoints, 0, << >>, << >>, algorithm = "bidirectional")
           nearbyMerged == mergeNearbySegments(rawSegments)
           fullyMerged == mergeOverlappingSegments(nearbyMerged, algorithm)
       IN CreateLoop(fullyMerged, trackA, trackB)

\* findMatchesBetweenTracks of utils/segmentMatcher.ts: the segments of the
\* pair and the grid cache afterwards
findMatchesBetweenTracks(cache, trackA, trackB, deltaMeters, algorithm) ==
  LET Grouped(sampled) ==
        [ segments |-> groupIntoSegments(sampled.matchingPoints, trackA, trackB, algorithm),
          cache |-> sampled.cache ]
      Match(pointsA, pointsB) ==
        IF Len(pointsA) < MIN_SEGMENT_POINTS \/ Len(pointsB) < MIN_SEGMENT_POINTS
        THEN [ segments |-> << >>, cache |-> cache ]
        ELSE Grouped(SampleLoop(cache, pointsA, trackB.id, pointsB, deltaMeters,
                                IF algorithm = "standard" THEN POINT_SAMPLE_RATE
                                ELSE getAdaptiveSampleRate(Len(pointsA)),
                                algorithm # "bidirectional", 0, << >>))
  IN Match(Elevation(trackA.id), Elevation(trackB.id))

RECURSIVE PairLoop(_, _, _, _, _, _, _)
\* the loops "for i ... for j = i + 1 ..." of findMatchingSegments, carrying
\* (allSegments, cache)
PairLoop(cache, visibleTracks, deltaMeters, algorithm, i, j, allSegments) ==
  IF i >= Len(visibleTracks) THEN [ segments |-> allSegments, cache |-> cache ]
  ELSE IF j >= Len(visibleTracks)
       THEN PairLoop(cache, visibleTracks, deltaMeters, algorithm, i + 1, i + 2, allSegments)
       ELSE LET Push(pair) ==
                  IF pair.segments = << >>
                  THEN PairLoop(pair.cache, visibleTracks, deltaMeters, algorithm, i, j + 1,
                                allSegments)
                  ELSE PairLoop(pair.cache, visibleTracks, deltaMeters, algorithm, i, j + 1,
                                allSegments \o pair.segments)
            IN Push(findMatchesBetweenTracks(cache, At(visibleTracks, i), At(visibleTracks, j),
                                             deltaMeters, algorithm))

\* a filter that lets every track through
AllTracks(ts) == ts

\* tracks.filter(t => t.visible)
VisibleTracks(ts) == SelectSeq(ts, LAMBDA t : t.visible)

\* the segments left in the order of the pairs
Unsorted(allSegments) == allSegments

\* allSegments.sort((a, b) => b.distance - a.distance)
SortByDistanceDesc(allSegments) ==
  StableSort(allSegments, [ k \in 1 .. Len(allSegments) |-> -allSegments[k].distance ])

\* findMatchingSegments: the result and the grid cache afterwards
findMatchingSegments(cache, ts, deltaMeters, algorithm) ==
  LET Sorted(all) == [ segments |-> SortByDistanceDesc(all.segments), cache |-> all.cache ]
      Match(visibleTracks) ==
        IF Len(visibleTracks) < 2 THEN [ segments |-> << >>, cache |-> cache ]
        ELSE Sorted(PairLoop(cache, visibleTracks, deltaMeters, algorithm, 0, 1, << >>))
  IN Match(VisibleTracks(ts))

(***************************************************************************)
(* The matcher of workers/segmentMatcher.worker.ts.  Its haversineDistance, *)
(* SpatialGrid, getSpatialGrid, grouping, merging and createSegment repeat  *)
(* those of utils token for token; its findMatchesBetweenTracks fetches the *)
(* grid of track B once, before the sampling loop.                          *)
(***************************************************************************)
RECURSIVE workerSampleLoop(_, _, _, _, _, _, _, _)
\* the sampling loop of the worker's findMatchesBetweenTracks
workerSampleLoop(grid, pointsA, pointsB, deltaMeters, sampleRate, checkBearing, i, acc) ==
  IF i >= Len(pointsA) THEN acc
  ELSE LET Step(nearest) ==
             IF \/ nearest = NoResult
                \/ BearingRejects(pointsA, pointsB, i, nearest.index, sampleRate, checkBearing)
             THEN workerSampleLoop(grid, pointsA, pointsB, deltaMeters, sampleRate,
                                   checkBearing, i + sampleRate, acc)
             ELSE workerSampleLoop(grid, pointsA, pointsB, deltaMeters, sampleRate,
                                   checkBearing, i + sampleRate,
                                   Append(acc, MatchingPoint(pointsA, pointsB, i, nearest.index)))
       IN Step(findNearestWithinDistance(grid, At(pointsA, i).lat, At(pointsA, i).lng,
                                         DeltaHm(deltaMeters)))

\* a worker that matches every pair in the standard mode
workerStandardOnly(cache, trackA, trackB, deltaMeters, algorithm) ==
  findMatchesBetweenTracks(cache, trackA, trackB, deltaMeters, "standard")

\* findMatchesBetweenTracks of the worker: the segments of the pair and the
\* worker's grid cache afterwards
workerFindMatchesBetweenTracks(cache, trackA, trackB, deltaMeters, algorithm) ==
  LET Sampled(got, pointsA, pointsB) ==
        [ segments |->
            groupIntoSegments(
              workerSampleLoop(got.grid, pointsA, pointsB, deltaMeters,
                               IF algorithm = "standard" THEN POINT_SAMPLE_RATE
                               ELSE getAdaptiveSampleRate(Len(pointsA)),
                               algorithm # "bidirectional", 0, << >>),
              trackA, trackB, algorithm),
          cache |-> got.cache ]
      Match(pointsA, pointsB) ==
        IF Len(pointsA) < MIN_SEGMENT_POINTS \/ Len(pointsB) < MIN_SEGMENT_POINTS
        THEN [ segments |-> << >>, cache |-> cache ]
        ELSE Sampled(getSpatialGrid(cache, trackB.id, pointsB, CellHm(deltaMeters)),
                     pointsA, pointsB)
  IN Match(Elevation(trackA.id), Elevation(trackB.id))

RECURSIVE workerPairLoop(_, _, _, _, _, _, _)
\* the pair loops of the worker's findMatchingSegments
workerPairLoop(cache, visibleTracks, deltaMeters, algorithm, i, j, allSegments) ==
  IF i >= Len(visibleTracks) THEN [ segments |-> allSegments, cache |-> cache ]
  ELSE IF j >= Len(visibleTracks)
       THEN workerPairLoop(cache, visibleTracks, deltaMeters, algorithm, i + 1, i + 2,
                           allSegments)
       ELSE LET Push(pair) ==
                  IF pair.segments = << >>
                  THEN workerPairLoop(pair.cache, visibleTracks, deltaMeters, algorithm, i,
                                      j + 1, allSegments)
                  ELSE workerPairLoop(pair.cache, visibleTracks, deltaMeters, algorithm, i,
                                      j + 1, allSegments \o pair.segments)
            IN Push(workerFindMatchesBetweenTracks(cache, At(visibleTracks, i),
                                                   At(visibleTracks, j), deltaMeters,
                                                   algorithm))

\* findMatchingSegments of the worker: the result and the worker's grid cache
\* afterwards
workerFindMatchingSegments(cache, ts, deltaMeters, algorithm) ==
  LET Sorted(all) == [ segments |-> SortByDistanceDesc(all.segments), cache |-> all.cache ]
      Match(visibleTracks) ==
        IF Len(visibleTracks) < 2 THEN [ segments |-> << >>, cache |-> cache ]
        ELSE Sorted(workerPairLoop(cache, visibleTracks, deltaMeters, algorithm, 0, 1, << >>))
  IN Match(VisibleTracks(ts))

(***************************************************************************)
(* Track store and worker dispatcher: store/useTrackStore.ts,              *)
(* hooks/useSegmentMatcherWorker.ts, workers/segmentMatcher.worker.ts      *)
(***************************************************************************)
\* the tracks a user may load: routes 1 and 2 of the library
StoreTrackIds == { 1, 2 }

\* values of the distance threshold slider used by the model, in metres
Deltas == { 100, 300 }

\* the default of matchingSettings.delta
DefaultDelta == 300

\* the store's call hands over tracks, delta and the onComplete closure and
\* names no algorithm (the dispatcher of src takes the algorithm as a third
\* argument before onComplete): the model reads the call as made with the
\* matcher's default algorithm and the closure as onComplete
DefaultAlgorithm == "standard"

NoCall == [ op |-> "none" ]

storeVars == << tracks, matchingSettings, matchedSegments, isMatchingLoading >>
timerVars == << matchingDebounceTimer, timers >>
dispatchVars == << worker, pendingCallback, workerInbox, mainInbox, idleQueue >>
cacheVars == << gridCache, workerGridCache >>
historyVars == << requests, invocations >>
selectionVars == << selectedTrackId, trackSegments >>

\* the record without the entry of the id: const { [id]: _, ...rest } = record
Without(record, id) == [ k \in (DOMAIN record) \ { id } |-> record[k] ]

\* the record with the entry of the id set: { ...record, [id]: value }
With(record, id, value) ==
  [ k \in (DOMAIN record) \cup { id } |-> IF k = id THEN value ELSE record[k] ]

\* one more store operation of the user
Edit == edits < MaxEdits /\ edits' = edits + 1

Init ==
  /\ tracks = << >>
  /\ matchingSettings = [ enabled |-> FALSE, delta |-> DefaultDelta ]
  /\ matchedSegments = << >>
  /\ isMatchingLoading = FALSE
  /\ matchingDebounceTimer = 0
  /\ timers = << >>
  /\ worker = "null"
  /\ pendingCallback = 0
  /\ workerInbox = << >>
  /\ mainInbox = << >>
  /\ idleQueue = << >>
  /\ gridCache = << >>
  /\ workerGridCache = << >>
  /\ requests = 0
  /\ edits = 0
  /\ invocations = << >>
  /\ env \in [ workers : BOOLEAN ]
  /\ selectedTrackId = 0
  /\ trackSegments = << >>
  /\ call = NoCall

\* a clearTimeout that cancels nothing
KeepTimeout(ts, handle) == ts

\* clearTimeout(handle)
ClearTimeout(ts, handle) ==
  IF handle \in 1 .. Len(ts) /\ ts[handle] = "pending"
  THEN [ ts EXCEPT ![handle] = "cleared" ]
  ELSE ts

\* setTimeout(callback, MATCHING_DEBOUNCE_MS): the new timer's handle is its
\* position
SetTimeout(ts) == Append(ts, "pending")

\* the timers that are set and have neither fired nor been cleared
liveTimers == { h \in 1 .. Len(timers) : timers[h] = "pending" }

\* a scheduling that does not look at matchingSettings.enabled
scheduleUnguarded(settings) ==
  /\ timers' = SetTimeout(IF matchingDebounceTimer # 0
                          THEN ClearTimeout(timers, matchingDebounceTimer)
                          ELSE timers)
  /\ matchingDebounceTimer' = Len(timers')
  /\ isMatchingLoading' = TRUE

\* scheduleMatchingRecalculation(get, set), called with the store's settings
\* after the caller's set(): nothing when matching is disabled, otherwise the
\* pending timer is cleared, isMatchingLoading is set and a new timer is set
scheduleMatchingRecalculation(settings) ==
  IF ~settings.enabled
  THEN UNCHANGED << timerVars, isMatchingLoading >>
  ELSE /\ timers' = SetTimeout(IF matchingDebounceTimer # 0
                               THEN ClearTimeout(timers, matchingDebounceTimer)
                               ELSE timers)
       /\ matchingDebounceTimer' = Len(timers')
       /\ isMatchingLoading' = TRUE

HasTrack(id) == \E k \in 1 .. Len(tracks) : tracks[k].id = id

\* addTracks(newTracks): one or two freshly parsed files
addTracks(newTracks) ==
  /\ Edit
  /\ tracks' = tracks \o newTracks
  /\ selectedTrackId' = (IF selectedTrackId # 0 THEN selectedTrackId
                         ELSE IF newTracks # << >> THEN newTracks[1].id ELSE 0)
  /\ UNCHANGED << matchingSettings, matchedSegments, trackSegments >>
  /\ scheduleMatchingRecalculation(matchingSettings)
  /\ UNCHANGED << dispatchVars, cacheVars, historyVars, env, call >>

\* removeTrack(id)
removeTrack(id) ==
  /\ Edit
  /\ tracks' = SelectSeq(tracks, LAMBDA t : t.id # id)
  /\ selectedTrackId' = (IF selectedTrackId = id
                         THEN (IF tracks' # << >> THEN tracks'[1].id ELSE 0)
                         ELSE selectedTrackId)
  /\ trackSegments' = Without(trackSegments, id)
  /\ UNCHANGED << matchingSettings, matchedSegments >>
  /\ scheduleMatchingRecalculation(matchingSettings)
  /\ UNCHANGED << dispatchVars, cacheVars, historyVars, env, call >>

\* toggleVisibility(id)
toggleVisibility(id) ==
  /\ Edit
  /\ tracks' = [ k \in 1 .. Len(tracks) |->
                   IF tracks[k].id = id
                   THEN [ tracks[k] EXCEPT !.visible = ~tracks[k].visible ]
                   ELSE tracks[k] ]
  /\ UNCHANGED << matchingSettings, matchedSegments >>
  /\ scheduleMatchingRecalculation(matchingSettings)
  /\ UNCHANGED << dispatchVars, cacheVars, historyVars, env, call, selectionVars >>

\* clearAllTracks()
clearAllTracks ==
  /\ Edit
  /\ timers' = (IF matchingDebounceTimer # 0
                THEN ClearTimeout(timers, matchingDebounceTimer)
                ELSE timers)
  /\ matchingDebounceTimer' = 0
  /\ tracks' = << >>
  /\ matchingSettings' = [ enabled |-> FALSE, delta |-> DefaultDelta ]
  /\ matchedSegments' = << >>
  /\ isMatchingLoading' = FALSE
  /\ selectedTrackId' = 0
  /\ trackSegments' = << >>
  /\ UNCHANGED << dispatchVars, cacheVars, historyVars, env, call >>

\* setMatchingEnabled(enabled)
setMatchingEnabled(enabled) ==
  /\ Edit
  /\ matchingSettings' = [ matchingSettings EXCEPT !.enabled = enabled ]
  /\ IF enabled
     THEN /\ scheduleMatchingRecalculation(matchingSettings')
          /\ UNCHANGED matchedSegments
     ELSE /\ timers' = (IF matchingDebounceTimer # 0
                        THEN ClearTimeout(timers, matchingDebounceTimer)
                        ELSE timers)
          /\ matchingDebounceTimer' = 0
          /\ matchedSegments' = << >>
          /\ isMatchingLoading' = FALSE
  /\ UNCHANGED << tracks, dispatchVars, cacheVars, historyVars, env, call, selectionVars >>

\* setMatchingDelta(delta)
setMatchingDelta(delta) ==
  /\ Edit
  /\ matchingSettings' = [ matchingSettings EXCEPT !.delta = delta ]
  /\ scheduleMatchingRecalculation(matchingSettings')
  /\ UNCHANGED << tracks, matchedSegments, dispatchVars, cacheVars, historyVars, env, call, selectionVars >>

\* recalculateMatching()
recalculateMatching ==
  /\ Edit
  /\ scheduleMatchingRecalculation(matchingSettings)
  /\ UNCHANGED << tracks, matchingSettings, matchedSegments,
                  dispatchVars, cacheVars, historyVars, env, call, selectionVars >>

\* an onComplete that applies its result without looking at the settings
OnCompleteUnchecked(segments) ==
  /\ matchedSegments' = segments
  /\ isMatchingLoading' = FALSE

\* an onComplete that leaves the loading flag as it is
OnCompleteKeepsLoading(segments) ==
  IF matchingSettings.enabled
  THEN /\ matchedSegments' = segments
       /\ UNCHANGED isMatchingLoading
  ELSE UNCHANGED << matchedSegments, isMatchingLoading >>

\* the onComplete closure "(segments) => { if (get().matchingSettings.enabled)
\* set({ matchedSegments: segments, isMatchingLoading: false }) }"
OnComplete(segments) ==
  IF matchingSettings.enabled
  THEN /\ matchedSegments' = segments
       /\ isMatchingLoading' = FALSE
  ELSE UNCHANGED << matchedSegments, isMatchingLoading >>

\* getWorker(): the worker is created on first use where the host has workers
getWorker == IF worker = "created" \/ env.workers THEN "created" ELSE "null"

\* calculateMatchingSegmentsAsync(tracks, delta, algorithm, onComplete): with
\* a worker the callback is stored and the request posted; without one the
\* calculation is left to an idle callback
calculateMatchingSegmentsAsync(ts, delta, algorithm) ==
  LET id == requests + 1
      request == [ id |-> id, tracks |-> ts, delta |-> delta, algorithm |-> algorithm ]
  IN /\ requests' = id
     /\ worker' = getWorker
     /\ IF getWorker = "created"
        THEN /\ pendingCallback' = id
             /\ workerInbox' = Append(workerInbox, request)
             /\ UNCHANGED idleQueue
        ELSE /\ idleQueue' = Append(idleQueue, request)
             /\ UNCHANGED << pendingCallback, workerInbox >>
     /\ UNCHANGED mainInbox

\* the debounce timer expires: the callback given to setTimeout
TimerFires(t) ==
  /\ t \in liveTimers
  /\ timers' = [ timers EXCEPT ![t] = "fired" ]
  /\ UNCHANGED matchingDebounceTimer
  /\ IF Len(VisibleTracks(tracks)) < 2 \/ ~matchingSettings.enabled
     THEN /\ matchedSegments' = << >>
          /\ isMatchingLoading' = FALSE
          /\ UNCHANGED << dispatchVars, requests >>
     ELSE /\ calculateMatchingSegmentsAsync(tracks, matchingSettings.delta, DefaultAlgorithm)
          /\ UNCHANGED << matchedSegments, isMatchingLoading >>
  /\ UNCHANGED << tracks, matchingSettings, cacheVars, invocations, edits, env, call, selectionVars >>

\* self.onmessage of the worker: the oldest posted request is computed and
\* answered
WorkerAnswers ==
  /\ workerInbox # << >>
  /\ LET Post(request, result) ==
           /\ workerGridCache' = result.cache
           /\ mainInbox' = Append(mainInbox, [ type |-> "message", from |-> request,
                                               data |-> result.segments ])
         Handle(request) ==
           Post(request, workerFindMatchingSegments(workerGridCache, request.tracks,
                                                    request.delta, request.algorithm))
     IN Handle(Head(workerInbox))
  /\ workerInbox' = Tail(workerInbox)
  /\ UNCHANGED << storeVars, timerVars, worker, pendingCallback, idleQueue, gridCache,
                  historyVars, edits, env, call, selectionVars >>

\* the worker throws while handling the oldest posted request
WorkerThrows ==
  /\ workerInbox # << >>
  /\ mainInbox' = Append(mainInbox, [ type |-> "error", from |-> Head(workerInbox),
                                      data |-> << >> ])
  /\ workerInbox' = Tail(workerInbox)
  /\ UNCHANGED << storeVars, timerVars, worker, pendingCallback, idleQueue, cacheVars,
                  historyVars, edits, env, call, selectionVars >>

\* worker.onmessage / worker.onerror on the main thread, for the oldest
\* event of the worker: "if (pendingCallback) { pendingCallback(data);
\* pendingCallback = null }" with data = [] for an error
WorkerEvent ==
  /\ mainInbox # << >>
  /\ LET event == Head(mainInbox)
     IN IF pendingCallback # 0
        THEN /\ OnComplete(event.data)
             /\ invocations' = Append(invocations,
                                      [ cb |-> pendingCallback, from |-> event.from.id ])
        ELSE /\ UNCHANGED << matchedSegments, isMatchingLoading >>
             /\ invocations' = Append(invocations, [ cb |-> 0, from |-> event.from.id ])
  /\ pendingCallback' = 0
  /\ mainInbox' = Tail(mainInbox)
  /\ UNCHANGED << tracks, matchingSettings, timerVars, worker, workerInbox, idleQueue,
                  cacheVars, requests, edits, env, call, selectionVars >>

\* the fallback's calculate(): findMatchingSegments on the main thread, then
\* onComplete
IdleCalculate ==
  /\ idleQueue # << >>
  /\ LET Complete(request, result) ==
           /\ gridCache' = result.cache
           /\ OnComplete(result.segments)
           /\ invocations' = Append(invocations, [ cb |-> request.id, from |-> request.id ])
         Calculate(request) ==
           Complete(request, findMatchingSegments(gridCache, request.tracks, request.delta,
                                                  request.algorithm))
     IN Calculate(Head(idleQueue))
  /\ idleQueue' = Tail(idleQueue)
  /\ UNCHANGED << tracks, matchingSettings, timerVars, worker, pendingCallback, workerInbox,
                  mainInbox, workerGridCache, requests, edits, env, call, selectionVars >>

\* the tracks of one upload: one or two tracks that are not loaded, visible
Unloaded == { x \in StoreTrackIds : ~HasTrack(x) }

NewTracks ==
  { << [ id |-> a, visible |-> TRUE ] >> : a \in Unloaded }
  \cup { << [ id |-> p[1], visible |-> TRUE ], [ id |-> p[2], visible |-> TRUE ] >> :
           p \in { q \in Unloaded \X Unloaded : q[1] < q[2] } }

Next ==
  \/ \E newTracks \in NewTracks : addTracks(newTracks)
  \/ \E id \in StoreTrackIds : HasTrack(id) /\ removeTrack(id)
  \/ \E id \in StoreTrackIds : HasTrack(id) /\ toggleVisibility(id)
  \/ clearAllTracks
  \/ \E enabled \in BOOLEAN : setMatchingEnabled(enabled)
  \/ \E delta \in Deltas : setMatchingDelta(delta)
  \/ recalculateMatching
  \/ \E t \in liveTimers : TimerFires(t)
  \/ WorkerAnswers
  \/ WorkerThrows
  \/ WorkerEvent
  \/ IdleCalculate

Spec == Init /\ [][Next]_vars

(***************************************************************************)
(* Direct calls of the grid cache: getSpatialGrid and clearGridCache       *)
(***************************************************************************)
\* the store and the dispatcher as constructed, no worker answer under way
Constructed ==
  /\ tracks = << >>
  /\ matchingSettings = [ enabled |-> FALSE, delta |-> DefaultDelta ]
  /\ matchedSegments = << >>
  /\ isMatchingLoading = FALSE
  /\ matchingDebounceTimer = 0
  /\ timers = << >>
  /\ worker = "null"
  /\ pendingCallback = 0
  /\ workerInbox = << >>
  /\ mainInbox = << >>
  /\ idleQueue = << >>
  /\ workerGridCache = << >>
  /\ requests = 0
  /\ invocations = << >>
  /\ edits = 0
  /\ env = [ workers |-> TRUE ]
  /\ selectedTrackId = 0
  /\ trackSegments = << >>

systemVars == << tracks, matchingSettings, matchedSegments, isMatchingLoading,
                 matchingDebounceTimer, timers, worker, pendingCallback, workerInbox,
                 mainInbox, idleQueue, workerGridCache, requests, invocations, edits, env,
                 selectedTrackId, trackSegments >>

Point(lat, lng) == [ lat |-> lat, lng |-> lng ]

\* the point lists handed to getSpatialGrid: up to MaxGridPoints points, each
\* 100 m east or west of the origin
CachePoints == { Point(0, 1), Point(0, -1) }

CachePointLists == UNION { [ 1 .. n -> CachePoints ] : n \in 0 .. MaxGridPoints }

GridTrackIds == { 1, 2 }

\* cellSizeKm of 0.5 and 0.6, in hm
CellSizes == { 5, 6 }

InitGrid ==
  /\ Constructed
  /\ gridCache = << >>
  /\ call = NoCall

CallGetSpatialGrid(trackId, points, cellHm) ==
  LET Returned(r) ==
        /\ gridCache' = r.cache
        /\ call' = [ op |-> "getSpatialGrid", trackId |-> trackId, points |-> points,
                     cellHm |-> cellHm, grid |-> r.grid ]
  IN /\ Returned(getSpatialGrid(gridCache, trackId, points, cellHm))
     /\ UNCHANGED systemVars

CallClearGridCache ==
  /\ gridCache' = clearGridCache(gridCache)
  /\ call' = [ op |-> "clearGridCache" ]
  /\ UNCHANGED systemVars

NextGrid ==
  \/ \E trackId \in GridTrackIds, points \in CachePointLists, cellHm \in CellSizes :
       CallGetSpatialGrid(trackId, points, cellHm)
  \/ CallClearGridCache

SpecGrid == InitGrid /\ [][NextGrid]_vars

(***************************************************************************)
(* Direct calls of SpatialGrid.findNearestWithinDistance                   *)
(***************************************************************************)
\* points near the origin and near 60 degrees north, in two neighbouring
\* cells and two cells further east
NearestPoints ==
  { Point(lat, lng) : lat \in { 0, Lat60 }, lng \in { -1, 1, 11 } }

NearestPointLists == UNION { [ 1 .. n -> NearestPoints ] : n \in 0 .. MaxGridPoints }

\* the query positions
NearestQueries == { Point(lat, lng) : lat \in { 0, Lat60 }, lng \in { 0, 4 } }

\* maxDistanceKm of 0.1, 0.3 and 0.5, in hm
MaxDistances == { 1, 3, 5 }

InitNearest ==
  /\ Constructed
  /\ gridCache = << >>
  /\ call \in [ op : { "input" }, points : NearestPointLists, cellHm : CellSizes,
                query : NearestQueries, maxHm : MaxDistances, result : { NoResult } ]

CallFindNearestWithinDistance ==
  /\ call.op = "input"
  /\ call' = [ call EXCEPT
                 !.op = "findNearestWithinDistance",
                 !.result = findNearestWithinDistance(SpatialGrid(call.points, call.cellHm),
                                                      call.query.lat, call.query.lng,
                                                      call.maxHm) ]
  /\ UNCHANGED << systemVars, gridCache >>

NextNearest == CallFindNearestWithinDistance

SpecNearest == InitNearest /\ [][NextNearest]_vars

(***************************************************************************)
(* Claims on the grid cache and the grid                                   *)
(***************************************************************************)
\* the entry a call of getSpatialGrid finds for its track id, with the point
\* count of its arguments
EntryMatches(cache, c) ==
  /\ c.trackId \in DOMAIN cache
  /\ cache[c.trackId].pointCount = Len(c.points)

\* what one call of getSpatialGrid (the step to call') does to the cache
GetSpatialGridStep ==
  call'.op = "getSpatialGrid" =>
    /\ EntryMatches(gridCache, call') =>
         /\ call'.grid = gridCache[call'.trackId].grid
         /\ gridCache' = gridCache
    /\ ~EntryMatches(gridCache, call') =>
         /\ call'.grid = SpatialGrid(call'.points, call'.cellHm)
         /\ (call'.trackId \in DOMAIN gridCache =>
               call'.grid # gridCache[call'.trackId].grid)
         /\ DOMAIN gridCache' = DOMAIN gridCache \cup { call'.trackId }
         /\ gridCache'[call'.trackId] =
              [ grid |-> call'.grid, pointCount |-> Len(call'.points) ]
         /\ \A id \in DOMAIN gridCache \ { call'.trackId } : gridCache'[id] = gridCache[id]

\* every entry's pointCount is the length of the list its grid was built from
PointCountsRight ==
  \A id \in DOMAIN gridCache :
    gridCache[id].pointCount = Len(gridCache[id].grid.points)

\* C6: getSpatialGrid returns the cached grid of the track id exactly when the
\* cache holds an entry for the id whose pointCount is the length of the given
\* list, and leaves the cache alone then; otherwise it builds a grid from the
\* given points and cell size and replaces the entry of that id only. The
\* cache is a map by track id (one entry per id) and every entry's pointCount
\* is the length of the list its grid was built from.
C6_CachedIffSameCount == [][GetSpatialGridStep]_vars /\ []PointCountsRight

\* C6: a call was answered from the cache with a grid built from other
\* coordinates of the same length, while the other track's entry exists
C6_Witness ==
  /\ call.op = "getSpatialGrid"
  /\ call.points # << >>
  /\ call.grid.points # call.points
  /\ Len(call.grid.points) = Len(call.points)
  /\ DOMAIN gridCache = GridTrackIds

\* C7: for maxDistanceKm <= cellSizeKm the grid's answer is the answer of the
\* exhaustive scan: the first point at minimal distance among those within
\* maxDistanceKm, or null
C7_GridEqualsLinearScan ==
  (call.op = "findNearestWithinDistance" /\ call.maxHm <= call.cellHm) =>
    call.result = LinearScan(call.points, call.query.lat, call.query.lng, call.maxHm)

\* C7: a query at 60 degrees north, 350 m west of the only point, with
\* maxDistanceKm = cellSizeKm = 0.5: the grid answers null
C7_Witness ==
  /\ call.op = "findNearestWithinDistance"
  /\ call.points = << Point(Lat60, 11) >>
  /\ call.query = Point(Lat60, 4)
  /\ call.cellHm = 5
  /\ call.maxHm = 5
  /\ call.result = NoResult
  /\ LinearScan(call.points, call.query.lat, call.query.lng, call.maxHm).index = 0

(***************************************************************************)
(* Direct calls of findMatchingSegments, and the debounce callback of a    *)
(* store that holds the same tracks                                        *)
(***************************************************************************)
Track(id, visible) == [ id |-> id, visible |-> visible ]

\* the lists of distinct tracks out of ids, visible or hidden
RECURSIVE TrackLists(_, _)
TrackLists(ids, n) ==
  IF n = 0 THEN { << >> }
  ELSE LET shorter == TrackLists(ids, n - 1)
       IN shorter \cup
          { Append(l, Track(id, v)) :
              l \in { x \in shorter : Len(x) = n - 1 }, id \in ids, v \in BOOLEAN }

Distinct(l) == \A a, b \in 1 .. Len(l) : l[a].id = l[b].id => a = b

\* a route and the same route travelled the other way
ReversedPairs == { << 1, 7 >>, << 7, 1 >>, << 8, 9 >>, << 9, 8 >>, << 10, 11 >> }

\* up to three of the routes 1, 2 and 3, route 1 with each other route, and
\* the reversed pairs
MatchTrackLists ==
  { l \in TrackLists({ 1, 2, 3 }, 3) : Distinct(l) }
  \cup { << Track(1, TRUE), Track(id, TRUE) >> : id \in { 4, 5, 6, 12, 13, 14, 15, 16 } }
  \cup { << Track(id, TRUE), Track(1, TRUE) >> : id \in { 4, 5, 6, 12, 13, 14, 15 } }
  \cup { << Track(p[1], TRUE), Track(p[2], TRUE) >> : p \in ReversedPairs }
  \cup { << Track(17, TRUE), Track(18, TRUE) >>, << Track(1, TRUE), Track(19, TRUE) >>,
         << Track(1, TRUE), Track(19, TRUE), Track(2, TRUE) >> }

\* the deltaMeters handed to findMatchingSegments: the slider's values, zero
\* and a negative one
MatchDeltas == Deltas \cup { 0, -100 }

\* the arguments of the call are drawn; the store holds the same tracks and
\* delta with matching enabled and its debounce timer pending
InitMatch ==
  /\ call \in [ op : { "input" }, tracks : MatchTrackLists, delta : MatchDeltas,
                algorithm : Algorithms, result : { << >> } ]
  /\ gridCache = << >>
  /\ tracks = call.tracks
  /\ matchingSettings = [ enabled |-> TRUE, delta |-> call.delta ]
  /\ matchedSegments = << >>
  /\ isMatchingLoading = TRUE
  /\ matchingDebounceTimer = 1
  /\ timers = << "pending" >>
  /\ worker = "null"
  /\ pendingCallback = 0
  /\ workerInbox = << >>
  /\ mainInbox = << >>
  /\ idleQueue = << >>
  /\ workerGridCache = << >>
  /\ requests = 0
  /\ invocations = << >>
  /\ edits = 0
  /\ env = [ workers |-> TRUE ]
  /\ selectedTrackId = 0
  /\ trackSegments = << >>

CallFindMatchingSegments ==
  /\ call.op = "input"
  /\ LET Returned(r) ==
           /\ call' = [ call EXCEPT !.op = "findMatchingSegments", !.result = r.segments ]
           /\ gridCache' = r.cache
     IN Returned(findMatchingSegments(gridCache, call.tracks, call.delta, call.algorithm))
  /\ UNCHANGED systemVars

NextMatch ==
  \/ CallFindMatchingSegments
  \/ \E t \in liveTimers : TimerFires(t)

SpecMatch == InitMatch /\ [][NextMatch]_vars

(***************************************************************************)
(* Claims on findMatchingSegments                                          *)
(***************************************************************************)
VisibleCount(ts) == Cardinality({ k \in 1 .. Len(ts) : ts[k].visible })

\* a call with fewer than two visible tracks returned [] and no grid is cached
FewVisibleEmpty ==
  (call.op = "findMatchingSegments" /\ VisibleCount(call.tracks) < 2) =>
    /\ call.result = << >>
    /\ gridCache = << >>

\* the debounce callback of a store with fewer than two visible tracks sets
\* matchedSegments = [] and hands nothing to the dispatcher
FewVisibleNoDispatch ==
  (timers' # timers /\ VisibleCount(tracks) < 2) =>
    /\ matchedSegments' = << >>
    /\ isMatchingLoading' = FALSE
    /\ requests' = requests
    /\ UNCHANGED << worker, pendingCallback, workerInbox, mainInbox, idleQueue >>
    /\ UNCHANGED << gridCache, workerGridCache >>

\* C9: findMatchingSegments returns [] for fewer than two visible tracks and
\* builds and caches no grid then, and the store's debounce callback then sets
\* matchedSegments = [] without a request to the worker
C9_FewVisibleNoComputation == []FewVisibleEmpty /\ [][FewVisibleNoDispatch]_vars

\* C9: three tracks of which one is visible were given to findMatchingSegments
\* and the timer of the store that holds them has fired
C9_Witness ==
  /\ call.op = "findMatchingSegments"
  /\ Len(call.tracks) = 3
  /\ VisibleCount(call.tracks) = 1
  /\ timers = << "fired" >>
  /\ matchedSegments = << >>
  /\ requests = 0

RECURSIVE Occurrences(_, _)
Occurrences(s, x) ==
  IF s = << >> THEN 0
  ELSE (IF Head(s) = x THEN 1 ELSE 0) + Occurrences(Tail(s), x)

IsPermutation(a, b) ==
  /\ Len(a) = Len(b)
  /\ \A k \in 1 .. Len(a) : Occurrences(a, a[k]) = Occurrences(b, a[k])

\* the visible tracks of ts, in order
Shown(ts) == SelectSeq(ts, LAMBDA t : t.visible)

RECURSIVE PairSegments(_, _, _, _, _)
\* the segments of the pairs (i, j), i < j, of the visible tracks, pair after
\* pair, each matched with a grid of its own
PairSegments(v, deltaMeters, algorithm, i, j) ==
  IF i > Len(v) THEN << >>
  ELSE IF j > Len(v) THEN PairSegments(v, deltaMeters, algorithm, i + 1, i + 2)
  ELSE LET pair == findMatchesBetweenTracks(<< >>, v[i], v[j], deltaMeters, algorithm).segments
       IN IF pair = << >> THEN PairSegments(v, deltaMeters, algorithm, i, j + 1)
          ELSE pair \o PairSegments(v, deltaMeters, algorithm, i, j + 1)

\* C10: the list findMatchingSegments returns is in descending order of
\* distance and is a permutation of the segments of the individual pairs
C10_SortedPermutation ==
  call.op = "findMatchingSegments" =>
    /\ \A k \in 1 .. Len(call.result) - 1 :
         call.result[k].distance >= call.result[k + 1].distance
    /\ IsPermutation(call.result,
                     PairSegments(Shown(call.tracks), call.delta, call.algorithm, 1, 2))

\* C10: three pairs matched, and the longest segment is not of the first pair
C10_Witness ==
  /\ call.op = "findMatchingSegments"
  /\ Len(call.result) = 3
  /\ call.result[1].distance > call.result[3].distance
  /\ call.result # PairSegments(Shown(call.tracks), call.delta, call.algorithm, 1, 2)

(***************************************************************************)
(* Claims on the store, its debounce timer and the worker dispatcher       *)
(***************************************************************************)
Last(s) == s[Len(s)]

\* C1: every result handled went to the onComplete of its own request (none
\* to another request's, none dropped), no onComplete was invoked twice, and
\* once nothing is under way every request's onComplete has been invoked
C1_OwnResultExactlyOnce ==
  /\ \A k \in 1 .. Len(invocations) : invocations[k].cb = invocations[k].from
  /\ \A k, l \in 1 .. Len(invocations) :
       invocations[k].cb = invocations[l].cb => k = l
  /\ (workerInbox = << >> /\ mainInbox = << >> /\ idleQueue = << >>) =>
       \A r \in 1 .. requests : \E k \in 1 .. Len(invocations) : invocations[k].cb = r

\* C1: a second request was posted before the worker answered the first
C1_Witness ==
  /\ requests = 2
  /\ Len(workerInbox) = 2
  /\ pendingCallback = 2

\* C2: while matching is disabled matchedSegments is empty, whatever timer
\* fires and whatever result of the worker arrives
C2_DisabledStaysEmpty == ~matchingSettings.enabled => matchedSegments = << >>

\* C2: matching is disabled while the non-empty result of a request waits to
\* be handled by the callback the dispatcher holds
C2_Witness ==
  /\ ~matchingSettings.enabled
  /\ pendingCallback # 0
  /\ mainInbox # << >>
  /\ Head(mainInbox).type = "message"
  /\ Head(mainInbox).data # << >>

\* the step hands the computed result of request r to an onComplete, and the
\* store accepts it (matching is enabled)
AcceptsResultOf(r) ==
  /\ matchingSettings.enabled
  /\ \/ /\ mainInbox # << >>
        /\ mainInbox' = Tail(mainInbox)
        /\ pendingCallback # 0
        /\ Head(mainInbox).type = "message"
        /\ Head(mainInbox).from = r
     \/ /\ idleQueue # << >>
        /\ idleQueue' = Tail(idleQueue)
        /\ Head(idleQueue) = r

\* the requests whose result may be handed over by a step
UnderWay ==
  { mainInbox[k].from : k \in 1 .. Len(mainInbox) } \cup { idleQueue[k] : k \in 1 .. Len(idleQueue) }

\* C3: a result is accepted into the store only if the delta and the tracks it
\* was computed from are the store's delta and tracks when it arrives
C3_OnlyCurrentAccepted ==
  [][\A r \in UnderWay :
       AcceptsResultOf(r) =>
         /\ r.delta = matchingSettings.delta
         /\ r.tracks = tracks]_vars

\* C3: the store's delta was changed while the result of a request computed
\* with the former delta waits to be handled
C3_Witness ==
  /\ matchingSettings.enabled
  /\ pendingCallback # 0
  /\ mainInbox # << >>
  /\ Head(mainInbox).type = "message"
  /\ Head(mainInbox).from.delta # matchingSettings.delta

\* at most one timer is pending, and it is the one the store holds
OnePending ==
  /\ Cardinality(liveTimers) <= 1
  /\ liveTimers # {} => (liveTimers = { matchingDebounceTimer } /\ matchingSettings.enabled)

\* a change of the store that leaves matching enabled cancels the pending
\* timer and sets a new one; a cancelled timer stays cancelled
ChangeSupersedes ==
  /\ (edits' # edits /\ matchingSettings'.enabled) =>
       /\ Len(timers') = Len(timers) + 1
       /\ timers'[Len(timers')] = "pending"
       /\ matchingDebounceTimer' = Len(timers')
       /\ \A h \in 1 .. Len(timers) : timers[h] = "pending" => timers'[h] = "cleared"
  /\ \A h \in 1 .. Len(timers) : timers[h] # "pending" => timers'[h] = timers[h]

\* the step in which a timer fires
Fires == \E h \in 1 .. Len(timers) : timers[h] = "pending" /\ timers'[h] = "fired"

\* the request the step hands to the dispatcher
Dispatched ==
  IF workerInbox' # workerInbox THEN Last(workerInbox') ELSE Last(idleQueue')

\* a firing timer dispatches one request made of the store's tracks and delta
DispatchesCurrent ==
  /\ requests' = requests + 1
  /\ (workerInbox' # workerInbox) # (idleQueue' # idleQueue)
  /\ Dispatched.tracks = tracks
  /\ Dispatched.delta = matchingSettings.delta

\* a dispatch happens in no other step than the firing of a timer
OnlyFiringDispatches == requests' # requests => Fires

\* C4 as stated: every timer that fires dispatches exactly one request
C4_ExactlyOneDispatch ==
  /\ []OnePending
  /\ [][ChangeSupersedes /\ OnlyFiringDispatches /\ (Fires => DispatchesCurrent)]_vars

\* C4: every change made while matching is enabled cancels the pending timer
\* and sets a new one, at most one timer is pending at any time, and the one
\* timer that fires after a burst of changes dispatches exactly one request,
\* made of the store's tracks and delta at that moment, if two or more tracks
\* are visible then; with fewer it dispatches none and sets matchedSegments = []
C4_DebounceSupersede ==
  /\ []OnePending
  /\ [][/\ ChangeSupersedes
        /\ OnlyFiringDispatches
        /\ Fires =>
             IF VisibleCount(tracks) >= 2
             THEN DispatchesCurrent
             ELSE requests' = requests /\ matchedSegments' = << >>]_vars

\* C4: three changes in one debounce window, the first two timers cancelled,
\* the third fired and dispatched the only request
C4_Witness ==
  /\ timers = << "cleared", "cleared", "fired" >>
  /\ requests = 1

\* the tracks the step removes from the store
Removed == { id \in StoreTrackIds : HasTrack(id) /\ ~HasTrack(id)' }

\* C5: after a step that removes a track from the store neither grid cache
\* holds an entry for the track's id
C5_RemovalInvalidates ==
  [][\A id \in Removed : id \notin DOMAIN gridCache' /\ id \notin DOMAIN workerGridCache']_vars

\* C5: a track whose grid the worker has cached is about to be removable: it
\* is loaded and cached
C5_Witness ==
  \E id \in StoreTrackIds : HasTrack(id) /\ id \in DOMAIN workerGridCache

\* the step handles an error event of the worker
HandlesError ==
  /\ mainInbox # << >>
  /\ Head(mainInbox).type = "error"
  /\ mainInbox' = Tail(mainInbox)

\* C8: when an error of the worker is handled, the onComplete of the request
\* that failed is invoked, once, with [], the callback slot is cleared and, if
\* matching is enabled, matchedSegments = [] and isMatchingLoading = false
C8_ErrorDegradesToEmpty ==
  [][HandlesError =>
       /\ Len(invocations') = Len(invocations) + 1
       /\ Last(invocations').cb = Head(mainInbox).from.id
       /\ \A k \in 1 .. Len(invocations) : invocations[k].cb # Head(mainInbox).from.id
       /\ pendingCallback' = 0
       /\ matchingSettings.enabled =>
            (matchedSegments' = << >> /\ isMatchingLoading' = FALSE)]_vars

\* C8: the worker failed on a request while another request is outstanding
C8_Witness ==
  /\ mainInbox # << >>
  /\ Head(mainInbox).type = "error"
  /\ workerInbox # << >>

(***************************************************************************)
(* Claims on the segments of a pair                                        *)
(***************************************************************************)
\* the last index of a track's point array
LastIndex(trackId) == Len(Elevation(trackId)) - 1

\* C11: every segment findMatchingSegments returns, in every algorithm mode,
\* has startIndexA <= endIndexA and startIndexB <= endIndexB, and both ranges
\* lie inside the point arrays of its track A and its track B
C11_IndexRangesOrdered ==
  call.op = "findMatchingSegments" =>
    \A k \in 1 .. Len(call.result) :
      LET seg == call.result[k]
      IN /\ 0 <= seg.startIndexA
         /\ seg.startIndexA <= seg.endIndexA
         /\ seg.endIndexA <= LastIndex(seg.trackAId)
         /\ 0 <= seg.startIndexB
         /\ seg.startIndexB <= seg.endIndexB
         /\ seg.endIndexB <= LastIndex(seg.trackBId)

\* C11: the bidirectional mode matched route 1 with the same route travelled
\* southwards, whose matching points run backwards through track B
C11_Witness ==
  /\ call.op = "findMatchingSegments"
  /\ call.algorithm = "bidirectional"
  /\ call.tracks = << Track(1, TRUE), Track(7, TRUE) >>
  /\ Len(call.result) = 1
  /\ call.result[1].startIndexB = 0
  /\ call.result[1].endIndexB = 21

Reverse(s) == [ k \in 1 .. Len(s) |-> s[Len(s) + 1 - k] ]

\* findMatchingSegments was called with two visible tracks of at least
\* MIN_SEGMENT_POINTS points, the second visiting the positions of the first in
\* reverse order, and a delta that covers their distance of zero
ReversedCall ==
  /\ call.op = "findMatchingSegments"
  /\ Len(call.tracks) = 2
  /\ call.tracks[1].visible /\ call.tracks[2].visible
  /\ Elevation(call.tracks[2].id) = Reverse(Elevation(call.tracks[1].id))
  /\ Len(Elevation(call.tracks[1].id)) >= MIN_SEGMENT_POINTS
  /\ call.delta >= 0

\* no segment in the standard and adaptive modes, one in the bidirectional
ReversedOutcome ==
  /\ call.algorithm \in { "standard", "adaptive" } => call.result = << >>
  /\ call.algorithm = "bidirectional" => Len(call.result) = 1

\* the route visits no position twice
OneWay(points) == \A a, b \in 1 .. Len(points) : points[a] = points[b] => a = b

\* the length of the route in metres, as createSegment sums it
RouteMetres(points) == SumSteps(points, 1)

PairCall ==
  /\ call.op = "findMatchingSegments"
  /\ Len(Shown(call.tracks)) = 2

PairA == Shown(call.tracks)[1]

PairB == Shown(call.tracks)[2]

\* the matching points the sampling loop accepts for the pair of the call
AcceptedPoints ==
  IF \/ Len(Elevation(PairA.id)) < MIN_SEGMENT_POINTS
     \/ Len(Elevation(PairB.id)) < MIN_SEGMENT_POINTS
  THEN << >>
  ELSE SampleLoop(<< >>, Elevation(PairA.id), PairB.id, Elevation(PairB.id), call.delta,
                  IF call.algorithm = "standard" THEN POINT_SAMPLE_RATE
                  ELSE getAdaptiveSampleRate(Len(Elevation(PairA.id))),
                  call.algorithm # "bidirectional", 0, << >>).matchingPoints

\* the groups of accepted points left after the grouping and both merge passes
FinalGroups ==
  mergeOverlappingSegments(
    mergeNearbySegments(GroupLoop(AcceptedPoints, 0, << >>, << >>,
                                  call.algorithm = "bidirectional")),
    call.algorithm)

\* C13: a pair with a track of fewer than MIN_SEGMENT_POINTS points, or with
\* fewer than MIN_SEGMENT_POINTS accepted matching points, yields no segment;
\* every group left after the grouping and the two merge passes has at least
\* MIN_SEGMENT_POINTS points, and every segment returned is made of such a group
C13_MinimumLengthFilter ==
  PairCall =>
    /\ Len(AcceptedPoints) < MIN_SEGMENT_POINTS => call.result = << >>
    /\ \A g \in 1 .. Len(FinalGroups) : Len(FinalGroups[g]) >= MIN_SEGMENT_POINTS
    /\ \A k \in 1 .. Len(call.result) :
         \E g \in 1 .. Len(FinalGroups) :
           /\ Len(FinalGroups[g]) >= MIN_SEGMENT_POINTS
           /\ call.result[k] = createSegment(FinalGroups[g], PairA, PairB)

\* C13: the adaptive mode accepted 9 points in a row and two shorter runs
\* beside them, and returned the one segment of the 9 points
C13_Witness ==
  /\ PairCall
  /\ call.tracks = << Track(15, TRUE), Track(1, TRUE) >>
  /\ call.algorithm = "adaptive"
  /\ Len(AcceptedPoints) > 9
  /\ Len(call.result) = 1
  /\ call.result[1].endIndexA - call.result[1].startIndexA = 8

\* C14: a pair matched with deltaMeters <= 0, or with a track of fewer than
\* 2 points, yields no segment
C14_MalformedInputNoMatch ==
  (/\ PairCall
   /\ \/ call.delta <= 0
      \/ Len(Elevation(PairA.id)) < 2
      \/ Len(Elevation(PairB.id)) < 2) => call.result = << >>

\* C14: route 1 and the same route loaded a second time were matched with
\* deltaMeters = 0
C14_Witness ==
  /\ PairCall
  /\ call.delta = 0
  /\ call.tracks = << Track(1, TRUE), Track(12, TRUE) >>

(***************************************************************************)
(* The same requests handed to findMatchingSegments of utils, as the        *)
(* fallback of the dispatcher does, and to the worker's, each with the grid *)
(* cache of its own thread                                                  *)
(***************************************************************************)
RunTrackLists ==
  { << Track(1, TRUE), Track(2, TRUE) >>,
    << Track(1, TRUE), Track(3, TRUE), Track(2, TRUE) >>,
    << Track(1, TRUE), Track(6, TRUE) >>,
    << Track(7, TRUE), Track(2, FALSE), Track(1, TRUE) >> }

InitRuns ==
  /\ Constructed
  /\ gridCache = << >>
  /\ call = NoCall

RunBoth(ts, delta, algorithm) ==
  /\ requests < MaxRuns
  /\ requests' = requests + 1
  /\ LET Returned(main, work) ==
           /\ gridCache' = main.cache
           /\ workerGridCache' = work.cache
           /\ call' = [ op |-> "both", tracks |-> ts, delta |-> delta, algorithm |-> algorithm,
                        fallback |-> main.segments, worker |-> work.segments ]
     IN Returned(findMatchingSegments(gridCache, ts, delta, algorithm),
                 workerFindMatchingSegments(workerGridCache, ts, delta, algorithm))
  /\ UNCHANGED << storeVars, timerVars, dispatchVars, invocations, edits, env, selectionVars >>

NextRuns ==
  \E ts \in RunTrackLists, delta \in Deltas, algorithm \in Algorithms :
    RunBoth(ts, delta, algorithm)

SpecRuns == InitRuns /\ [][NextRuns]_vars

\* C15: for the same request after the same earlier requests, the matcher of
\* utils and the matcher of the worker return equal lists of segments, and
\* leave equal grid caches
C15_WorkerEqualsFallback ==
  call.op = "both" =>
    /\ call.fallback = call.worker
    /\ gridCache = workerGridCache

\* C15: a second request, in the adaptive mode and with another delta than
\* the first, was answered by both with the same two segments
C15_Witness ==
  /\ call.op = "both"
  /\ requests = 2
  /\ call.algorithm = "adaptive"
  /\ Len(call.tracks) = 3
  /\ Len(call.fallback) >= 2
  /\ call.fallback = call.worker
  /\ \E id \in DOMAIN gridCache : gridCache[id].grid.cellSize # CellHm(call.delta)

(***************************************************************************)
(* simplifyPolyline and smoothPolyline applied to polylines.  A tolerance  *)
(* is a distance and a window size a number of points: neither is negative. *)
(***************************************************************************)
\* points of the polylines drawn
MaxPolylineLen == 4

PolylinePoints ==
  { [ lat |-> 0, lng |-> 0 ], [ lat |-> 1, lng |-> 0 ], [ lat |-> 2, lng |-> 0 ],
    [ lat |-> 0, lng |-> 1 ], [ lat |-> 1, lng |-> 1 ] }

\* a zigzag, a route there and back, and a closed loop
LongPolylines ==
  { [ i \in 1 .. 7 |-> [ lat |-> i - 1, lng |-> (i - 1) % 2 ] ],
    [ i \in 1 .. 7 |-> [ lat |-> IF i <= 4 THEN i - 1 ELSE 7 - i, lng |-> 0 ] ],
    << [ lat |-> 0, lng |-> 0 ], [ lat |-> 1, lng |-> 0 ], [ lat |-> 2, lng |-> 0 ],
       [ lat |-> 2, lng |-> 1 ], [ lat |-> 1, lng |-> 1 ], [ lat |-> 0, lng |-> 0 ] >> }

Polylines ==
  UNION { [ 1 .. n -> PolylinePoints ] : n \in 0 .. MaxPolylineLen } \cup LongPolylines

\* in 1/600 unit: the distance between neighbouring polyline points is 10
Tolerances == { 0, 5, SimplifyTolerance, 15, 2000 }

WindowSizes == { 0, 1, 2, 3, 5 }

InitPolyline ==
  /\ Constructed
  /\ gridCache = << >>
  /\ call \in [ op : { "input" }, points : Polylines ]

CallSimplifyPolyline(tolerance) ==
  /\ call.op = "input"
  /\ call' = [ op |-> "simplifyPolyline", points |-> call.points, tolerance |-> tolerance,
               result |-> simplifyPolyline(call.points, tolerance) ]
  /\ UNCHANGED << systemVars, gridCache >>

\* the result of simplifyPolyline handed to simplifyPolyline once more
CallSimplifyPolylineAgain ==
  /\ call.op = "simplifyPolyline"
  /\ call' = [ op |-> "simplifyPolyline twice", points |-> call.points,
               tolerance |-> call.tolerance, first |-> call.result,
               result |-> simplifyPolyline(call.result, call.tolerance) ]
  /\ UNCHANGED << systemVars, gridCache >>

CallSmoothPolyline(windowSize) ==
  /\ call.op = "input"
  /\ call' = [ op |-> "smoothPolyline", points |-> call.points, windowSize |-> windowSize,
               result |-> smoothPolyline(call.points, windowSize) ]
  /\ UNCHANGED << systemVars, gridCache >>

NextPolyline ==
  \/ \E tolerance \in Tolerances : CallSimplifyPolyline(tolerance)
  \/ CallSimplifyPolylineAgain
  \/ \E windowSize \in WindowSizes : CallSmoothPolyline(windowSize)

SpecPolyline == InitPolyline /\ [][NextPolyline]_vars

\* C16: simplifying a simplified polyline with the same tolerance changes
\* nothing
C16_SimplifyIdempotent ==
  call.op = "simplifyPolyline twice" => call.result = call.first

\* C16: a polyline that lost some interior points and kept others was
\* simplified a second time
C16_Witness ==
  /\ call.op = "simplifyPolyline twice"
  /\ Len(call.first) < Len(call.points)
  /\ Len(call.first) > 2
  /\ call.result = call.first

\* C17: the simplified polyline of a polyline that is not empty begins and
\* ends with the points the polyline begins and ends with
C17_SimplifyKeepsEndpoints ==
  (call.op = "simplifyPolyline" /\ call.points # << >>) =>
    /\ call.result # << >>
    /\ call.result[1] = call.points[1]
    /\ call.result[Len(call.result)] = call.points[Len(call.points)]

\* C17: a polyline with different ends was split and lost interior points
C17_Witness ==
  /\ call.op = "simplifyPolyline"
  /\ Len(call.result) \in 3 .. Len(call.points) - 1
  /\ call.points[1] # call.points[Len(call.points)]
  /\ call.result[1] = call.points[1]
  /\ call.result[Len(call.result)] = call.points[Len(call.points)]

\* C18: the smoothed polyline has as many points as the polyline, and its
\* first and last points are those of the polyline
C18_SmoothKeepsEndpoints ==
  call.op = "smoothPolyline" =>
    /\ Len(call.result) = Len(call.points)
    /\ call.points # << >> =>
         /\ call.result[1] = ToPath(call.points[1])
         /\ call.result[Len(call.result)] = ToPath(call.points[Len(call.points)])

\* C18: a polyline longer than the window was smoothed: an interior point
\* moved, the ends did not though averaging would have moved them
C18_Witness ==
  /\ call.op = "smoothPolyline"
  /\ Len(call.points) > call.windowSize
  /\ \E i \in 2 .. Len(call.points) - 1 : call.result[i] # ToPath(call.points[i])
  /\ call.points[1] # call.points[2]
  /\ call.result[1] = ToPath(call.points[1])
  /\ call.result[Len(call.result)] = ToPath(call.points[Len(call.points)])

(***************************************************************************)
(* bearingsAreSimilar applied to pairs of bearings                         *)
(***************************************************************************)
\* the bearings drawn are the multiples of BearingStep degrees
BearingStep == 5

Bearings == { b \in 0 .. 359 : b % BearingStep = 0 } \cup { 0, 10, 180, 350, 359 }

\* 45 and 60 are the tolerances the matcher uses
BearingTolerances == { 0, 45, 60, 180 }

InitBearing ==
  /\ Constructed
  /\ gridCache = << >>
  /\ call \in [ op : { "input" }, bearing1 : Bearings, bearing2 : Bearings ]

CallBearingsAreSimilar(tolerance) ==
  /\ call.op = "input"
  /\ call' = [ op |-> "bearingsAreSimilar", bearing1 |-> call.bearing1,
               bearing2 |-> call.bearing2, tolerance |-> tolerance,
               result |-> bearingsAreSimilar(call.bearing1, call.bearing2, tolerance) ]
  /\ UNCHANGED << systemVars, gridCache >>

NextBearing == \E tolerance \in BearingTolerances : CallBearingsAreSimilar(tolerance)

SpecBearing == InitBearing /\ [][NextBearing]_vars

\* the shorter of the two arcs between two bearings
CircularDifference(b1, b2) == Min2((b1 - b2) % 360, (b2 - b1) % 360)

\* C19: bearingsAreSimilar holds exactly when the shorter arc between the
\* bearings is at most the tolerance, whichever bearing comes first; it
\* holds of (10, 350, 45) and not of (0, 180, 45)
C19_BearingsSimilarIffCircular ==
  call.op = "bearingsAreSimilar" =>
    /\ call.result = (CircularDifference(call.bearing1, call.bearing2) <= call.tolerance)
    /\ call.result = bearingsAreSimilar(call.bearing2, call.bearing1, call.tolerance)
    /\ (call.bearing1 = 10 /\ call.bearing2 = 350 /\ call.tolerance = 45) => call.result
    /\ (call.bearing1 = 0 /\ call.bearing2 = 180 /\ call.tolerance = 45) => ~call.result

\* C19: bearings on both sides of north were found similar
C19_Witness ==
  /\ call.op = "bearingsAreSimilar"
  /\ call.bearing1 = 10
  /\ call.bearing2 = 350
  /\ call.tolerance = 45
  /\ call.result

(***************************************************************************)
(* Claims on the grid that answers the queries of a run                    *)
(***************************************************************************)
\* the track every other visible track of the request is compared with as
\* track B: the last visible one
LastVisibleId == VisibleTracks(call.tracks)[Len(VisibleTracks(call.tracks))].id

\* C20: the grid of track B that answered the nearest-neighbour queries of
\* a run has the cell size max(2 x deltaKm, 0.5 km) of that run, in the
\* matcher of utils and in the worker's, whatever runs came before
C20_GridCellOfRun ==
  call.op = "both" =>
    /\ LastVisibleId \in DOMAIN gridCache
    /\ gridCache[LastVisibleId].grid.cellSize = CellHm(call.delta)
    /\ LastVisibleId \in DOMAIN workerGridCache
    /\ workerGridCache[LastVisibleId].grid.cellSize = CellHm(call.delta)

\* C20: a second run, with a delta that asks for another cell size than the
\* run before it, queried the grid of a track whose points had not changed
C20_Witness ==
  /\ call.op = "both"
  /\ requests = 2
  /\ LastVisibleId \in DOMAIN gridCache
  /\ gridCache[LastVisibleId].pointCount = Len(Elevation(LastVisibleId))
  /\ gridCache[LastVisibleId].grid.cellSize # CellHm(call.delta)

(***************************************************************************)
(* Claims on the sampling loop and the grouping of a pair                  *)
(***************************************************************************)
PairSampleRate ==
  IF call.algorithm = "standard" THEN POINT_SAMPLE_RATE
  ELSE getAdaptiveSampleRate(Len(Elevation(PairA.id)))

\* the samples of track A with a point of track B within delta, before any
\* test of their bearings
Candidates ==
  IF \/ Len(Elevation(PairA.id)) < MIN_SEGMENT_POINTS
     \/ Len(Elevation(PairB.id)) < MIN_SEGMENT_POINTS
  THEN << >>
  ELSE SampleLoop(<< >>, Elevation(PairA.id), PairB.id, Elevation(PairB.id), call.delta,
                  PairSampleRate, FALSE, 0, << >>).matchingPoints

\* bearingsAreSimilar(bearingA, bearingB, 45) for the steps that end at the
\* two points of a candidate and begin sampleRate points earlier, at 0 at
\* the earliest
StepBearingsSimilar(mp) ==
  LET pointsA == Elevation(PairA.id)
      pointsB == Elevation(PairB.id)
      prevA == At(pointsA, Max2(0, mp.indexA - PairSampleRate))
      prevB == At(pointsB, Max2(0, mp.indexB - PairSampleRate))
  IN bearingsAreSimilar(calculateBearing(prevA.lat, prevA.lng, mp.pointA.lat, mp.pointA.lng),
                        calculateBearing(prevB.lat, prevB.lng, mp.pointB.lat, mp.pointB.lng),
                        45)

\* C21: in the standard and adaptive modes the accepted matching points are
\* exactly the candidates whose step bearings are similar within 45 degrees;
\* in the bidirectional mode every candidate is accepted
C21_DirectionFilter ==
  PairCall =>
    IF call.algorithm = "bidirectional"
    THEN AcceptedPoints = Candidates
    ELSE AcceptedPoints = SelectSeq(Candidates, StepBearingsSimilar)

\* C21: the standard mode rejected candidates of a pair for their bearings
\* and accepted others
C21_Witness ==
  /\ PairCall
  /\ call.algorithm = "standard"
  /\ AcceptedPoints # << >>
  /\ Len(AcceptedPoints) < Len(Candidates)

\* the rule for a point to extend the segment that ends with last
ExtendsSegment(last, current) ==
  /\ Abs(current.indexA - last.indexA) <= MAX_INDEX_GAP
  /\ Abs(current.indexB - last.indexB) <= MAX_INDEX_GAP
  /\ \/ call.algorithm = "bidirectional"
     \/ current.indexA > last.indexA /\ current.indexB > last.indexB
     \/ current.indexA < last.indexA /\ current.indexB < last.indexB

\* two accepted points in a row are neighbours in one of the raw segments
NeighboursInSegment(raw, first, second) ==
  \E g \in 1 .. Len(raw) : \E m \in 1 .. Len(raw[g]) - 1 :
    raw[g][m] = first /\ raw[g][m + 1] = second

\* an accepted point is in one of the raw segments
InSegment(raw, mp) ==
  \E g \in 1 .. Len(raw) : \E m \in 1 .. Len(raw[g]) : raw[g][m] = mp

\* C22: every raw segment is a run of accepted points in their order; two
\* accepted points in a row are neighbours in a raw segment only if the
\* second extends the first by the rule (both index gaps at most
\* MAX_INDEX_GAP and, unless bidirectional, both indices moving the same
\* way), and if it does, the raw segment holding one holds the other next to it
C22_GroupingRule ==
  PairCall =>
    LET Ruled(accepted, raw) ==
          /\ \A g \in 1 .. Len(raw) :
               \E a \in 1 .. Len(accepted) :
                 /\ a + Len(raw[g]) - 1 <= Len(accepted)
                 /\ raw[g] = SubSeq(accepted, a, a + Len(raw[g]) - 1)
          /\ \A k \in 1 .. Len(accepted) - 1 :
               /\ NeighboursInSegment(raw, accepted[k], accepted[k + 1])
                    => ExtendsSegment(accepted[k], accepted[k + 1])
               /\ (ExtendsSegment(accepted[k], accepted[k + 1])
                     /\ (InSegment(raw, accepted[k]) \/ InSegment(raw, accepted[k + 1])))
                    => NeighboursInSegment(raw, accepted[k], accepted[k + 1])
        Grouped(accepted) ==
          Ruled(accepted, GroupLoop(accepted, 0, << >>, << >>, call.algorithm = "bidirectional"))
    IN Grouped(AcceptedPoints)

\* C22: an index gap above MAX_INDEX_GAP closed one raw segment and the
\* point behind the gap started the next
C22_Witness ==
  /\ PairCall
  /\ LET Split(accepted, raw) ==
           /\ Len(raw) = 2
           /\ \E k \in 1 .. Len(accepted) - 1 :
                /\ accepted[k] = raw[1][Len(raw[1])]
                /\ accepted[k + 1] = raw[2][1]
                /\ Abs(accepted[k + 1].indexB - accepted[k].indexB) > MAX_INDEX_GAP
         Grouped(accepted) ==
           Split(accepted, GroupLoop(accepted, 0, << >>, << >>, call.algorithm = "bidirectional"))
     IN Grouped(AcceptedPoints)

\* every point of the raw segment is a point of the group
PartOf(rawSegment, group) ==
  \A m \in 1 .. Len(rawSegment) : \E n \in 1 .. Len(group) : group[n] = rawSegment[m]

\* C23: in the standard and adaptive modes no group left by the two merge
\* passes holds two raw segments whose first-to-last bearings differ by more
\* than 60 degrees
C23_MergeSameDirection ==
  (PairCall /\ call.algorithm # "bidirectional") =>
    LET Merged(raw, final) ==
          \A g \in 1 .. Len(final) : \A r1, r2 \in 1 .. Len(raw) :
            (PartOf(raw[r1], final[g]) /\ PartOf(raw[r2], final[g]))
              => segmentsHaveSameDirection(raw[r1], raw[r2])
        Passes(raw) == Merged(raw, mergeOverlappingSegments(mergeNearbySegments(raw),
                                                            call.algorithm))
    IN Passes(GroupLoop(AcceptedPoints, 0, << >>, << >>, FALSE))

\* C23: the adaptive mode made one group of two raw segments of a pair
C23_Witness ==
  /\ PairCall
  /\ call.algorithm = "adaptive"
  /\ LET Merged(raw, final) ==
           /\ Len(raw) = 2
           /\ Len(final) = 1
           /\ PartOf(raw[1], final[1])
           /\ PartOf(raw[2], final[1])
           /\ segmentsHaveSameDirection(raw[1], raw[2])
         Passes(raw) == Merged(raw, mergeOverlappingSegments(mergeNearbySegments(raw),
                                                             call.algorithm))
     IN Passes(GroupLoop(AcceptedPoints, 0, << >>, << >>, FALSE))

(***************************************************************************)
(* Claims on the segments made of the groups                               *)
(***************************************************************************)
\* the points of track A from index startIdxA to index endIdxA
RangeOfA(startIdxA, endIdxA) == SubSeq(Elevation(PairA.id), startIdxA + 1, endIdxA + 1)

\* the segment has the index ranges of the group, and its distance and its
\* path are those of the whole range of track A between the ends of the group
MadeOf(segment, group) ==
  /\ segment.id = << PairA.id, PairB.id, group[1].indexA >>
  /\ segment.startIndexA = MinOf(IndexAs(group))
  /\ segment.endIndexA = MaxOf(IndexAs(group))
  /\ segment.startIndexB = MinOf(IndexBs(group))
  /\ segment.endIndexB = MaxOf(IndexBs(group))
  /\ LET Path(rawPoints) ==
           /\ Len(rawPoints) = segment.endIndexA - segment.startIndexA + 1
           /\ segment.distance = SumSteps(rawPoints, 1)
           /\ segment.points = simplifyPolyline(smoothPolyline(rawPoints, 5), SimplifyTolerance)
     IN Path(RangeOfA(MinOf(IndexAs(group)), MaxOf(IndexAs(group))))

\* C24: every segment returned for a pair is made of one of the final groups:
\* its index ranges are the least and the greatest indexA and indexB of the
\* group, and its path before smoothing is the range of track A's points
\* between them, all of them
C24_SegmentMaterialization ==
  PairCall =>
    LET Made(final) ==
          \A k \in 1 .. Len(call.result) :
            \E g \in 1 .. Len(final) : MadeOf(call.result[k], final[g])
    IN Made(FinalGroups)

\* C24: a segment was made of a group that leaves out points of track A
\* between its ends
C24_Witness ==
  /\ PairCall
  /\ Len(call.result) = 1
  /\ LET Made(final) ==
           /\ Len(final) = 1
           /\ Len(final[1]) < call.result[1].endIndexA - call.result[1].startIndexA + 1
           /\ MadeOf(call.result[1], final[1])
     IN Made(FinalGroups)

(***************************************************************************)
(* Claims on the store while matching is disabled, and on the loading flag *)
(***************************************************************************)
\* matching is disabled and stays so over a step that changes the tracks or
\* the delta
InputChangeWhileDisabled ==
  /\ ~matchingSettings.enabled
  /\ ~matchingSettings'.enabled
  /\ tracks' # tracks \/ matchingSettings'.delta # matchingSettings.delta

\* C25: while matching is disabled matchedSegments is empty,
\* isMatchingLoading is false and no debounce timer is pending; a change of
\* the tracks or of the delta made while disabled leaves matchedSegments,
\* isMatchingLoading and the timer as they are
C25_DisabledStoreInvariant ==
  /\ [](~matchingSettings.enabled =>
          /\ matchedSegments = << >>
          /\ isMatchingLoading = FALSE
          /\ liveTimers = { })
  /\ [][InputChangeWhileDisabled =>
          UNCHANGED << matchedSegments, isMatchingLoading, matchingDebounceTimer, timers >>]_vars

\* C25: tracks are loaded and matching is disabled again after a
\* recalculation had been scheduled and its request posted
C25_Witness ==
  /\ ~matchingSettings.enabled
  /\ Len(tracks) >= 2
  /\ requests >= 1
  /\ matchedSegments = << >>
  /\ isMatchingLoading = FALSE
  /\ liveTimers = { }

\* the steps of WorkerAnswers and WorkerThrows: the only steps that take the
\* oldest request out of the worker's inbox
WorkerResponds == workerInbox # << >> /\ workerInbox' = Tail(workerInbox)

\* the steps of IdleCalculate: the only steps that take the oldest request
\* out of the idle queue
IdleRuns == idleQueue # << >> /\ idleQueue' = Tail(idleQueue)

\* the store with its environment doing its part: a timer that is set and
\* not cleared fires, the main thread handles every event of the worker, the
\* worker answers or throws on every posted request, and the idle callback of
\* the fallback runs.  The last two are the weak fairness of WorkerAnswers \/
\* WorkerThrows and of IdleCalculate, written out as "infinitely often
\* disabled or infinitely often taken": they are enabled exactly when their
\* queue is not empty
SpecLive ==
  /\ Spec
  /\ WF_vars(\E t \in liveTimers : TimerFires(t))
  /\ WF_vars(WorkerEvent)
  /\ ([]<>(workerInbox = << >>) \/ []<><<WorkerResponds>>_vars)
  /\ ([]<>(idleQueue = << >>) \/ []<><<IdleRuns>>_vars)

\* C26: whenever isMatchingLoading is true it becomes false again
C26_LoadingEnds == isMatchingLoading ~> ~isMatchingLoading

\* C26: the loading flag set by a scheduled recalculation was cleared by the
\* onComplete of a request while matching is enabled
C26_Witness ==
  /\ matchingSettings.enabled
  /\ ~isMatchingLoading
  /\ invocations # << >>
  /\ Last(invocations).cb # 0
  /\ liveTimers = { }

(***************************************************************************)
(* Claims on the groups and the segments of one pair                       *)
(***************************************************************************)
StrictlyAscending(indices) ==
  \A m \in 1 .. Len(indices) - 1 : indices[m] < indices[m + 1]

\* the ranges of indexA of two groups have no index in common
DisjointRangesA(group1, group2) ==
  \/ MaxOf(IndexAs(group1)) < MinOf(IndexAs(group2))
  \/ MaxOf(IndexAs(group2)) < MinOf(IndexAs(group1))

\* the groups of a list have strictly ascending indexA, ranges of indexA
\* that are pairwise disjoint, and no two of them meet the index criterion of
\* segmentsOverlap
Apart(groups) ==
  /\ \A g \in 1 .. Len(groups) : StrictlyAscending(IndexAs(groups[g]))
  /\ \A g1, g2 \in 1 .. Len(groups) :
       g1 # g2 => /\ DisjointRangesA(groups[g1], groups[g2])
                  /\ ~segmentsOverlap(groups[g1], groups[g2], TRUE)

\* C27: the groups of a pair handed to the overlap merge and the groups left
\* by it have strictly ascending indexA and pairwise disjoint ranges of
\* indexA, segmentsOverlap holds of no two of them, and no two segments
\* returned for the pair share an index of track A
C27_GroupsDisjoint ==
  PairCall =>
    LET Final(nearbyMerged) ==
          /\ Apart(nearbyMerged)
          /\ Apart(mergeOverlappingSegments(nearbyMerged, call.algorithm))
        Nearby(raw) == Final(mergeNearbySegments(raw))
    IN /\ Nearby(GroupLoop(AcceptedPoints, 0, << >>, << >>, call.algorithm = "bidirectional"))
       /\ \A k1, k2 \in 1 .. Len(call.result) :
            k1 # k2 => \/ call.result[k1].endIndexA < call.result[k2].startIndexA
                       \/ call.result[k2].endIndexA < call.result[k1].startIndexA

\* C27: two segments were returned for one pair
C27_Witness ==
  /\ PairCall
  /\ Len(call.result) = 2
  /\ Len(FinalGroups) = 2
  /\ call.result[1].endIndexA < call.result[2].startIndexA
       \/ call.result[2].endIndexA < call.result[1].startIndexA

\* C28: the segments returned by one call of findMatchingSegments have
\* pairwise distinct ids
C28_SegmentIdsUnique ==
  call.op = "findMatchingSegments" =>
    \A k1, k2 \in 1 .. Len(call.result) :
      k1 # k2 => call.result[k1].id # call.result[k2].id

\* C28: one call returned two segments of one pair and a segment of another
C28_Witness ==
  /\ call.op = "findMatchingSegments"
  /\ \E k1, k2, k3 \in 1 .. Len(call.result) :
       /\ k1 # k2
       /\ call.result[k1].trackAId = call.result[k2].trackAId
       /\ call.result[k1].trackBId = call.result[k2].trackBId
       /\ call.result[k1].id # call.result[k2].id
       /\ call.result[k3].trackBId # call.result[k1].trackBId

\* the accepted point is the first point of one of the raw segments
StartsSegment(raw, mp) == \E g \in 1 .. Len(raw) : raw[g][1] = mp

\* C29: in the standard and adaptive modes indexA and indexB are strictly
\* increasing inside every raw segment, and an accepted point whose indexB is
\* not above that of the accepted point before it is never its neighbour in a
\* raw segment: the raw segment that holds it begins with it
C29_RawSegmentsAscending ==
  (PairCall /\ call.algorithm # "bidirectional") =>
    LET Ascending(accepted, raw) ==
          /\ \A g \in 1 .. Len(raw) :
               /\ StrictlyAscending(IndexAs(raw[g]))
               /\ StrictlyAscending(IndexBs(raw[g]))
          /\ \A k \in 1 .. Len(accepted) - 1 :
               accepted[k + 1].indexB <= accepted[k].indexB =>
                 /\ ~NeighboursInSegment(raw, accepted[k], accepted[k + 1])
                 /\ InSegment(raw, accepted[k + 1]) => StartsSegment(raw, accepted[k + 1])
        Grouped(accepted) == Ascending(accepted, GroupLoop(accepted, 0, << >>, << >>, FALSE))
    IN Grouped(AcceptedPoints)

\* C29: a raw segment was closed by an accepted point matched to the point of
\* track B that the point before it was matched to
C29_Witness ==
  /\ PairCall
  /\ call.algorithm = "adaptive"
  /\ LET Closed(accepted, raw) ==
           \E k \in 1 .. Len(accepted) - 1 :
             /\ accepted[k + 1].indexB = accepted[k].indexB
             /\ accepted[k] = raw[1][Len(raw[1])]
             /\ ~InSegment(raw, accepted[k + 1])
         Grouped(accepted) ==
           /\ Len(accepted) > MIN_SEGMENT_POINTS
           /\ Closed(accepted, GroupLoop(accepted, 0, << >>, << >>, FALSE))
     IN Grouped(AcceptedPoints)

(***************************************************************************)
(* Manual selection of a segment of the selected track                     *)
(***************************************************************************)
\* null in the place of a SelectedPoint
NoPoint == [ index |-> -1 ]

\* the points of a track the user may click: a SelectedPoint by its index
SelectedPoints == { [ index |-> i ] : i \in 0 .. MaxPointIndex }

\* the ids handed to selectTrack and clearSegment, 0 for null and undefined
SelectableIds == StoreTrackIds \cup { 0 }

InitSelect ==
  /\ Constructed
  /\ gridCache = << >>
  /\ call = NoCall

\* selectTrack(id)
selectTrack(id) ==
  /\ selectedTrackId' = id
  /\ UNCHANGED << storeVars, timerVars, dispatchVars, cacheVars, historyVars, edits, env,
                  call, trackSegments >>

\* trackSegments[selectedTrackId] || { start: null, end: null }
currentSegment ==
  IF selectedTrackId \in DOMAIN trackSegments
  THEN trackSegments[selectedTrackId]
  ELSE [ start |-> NoPoint, end |-> NoPoint ]

\* a setSegmentPoint that takes the second point as the end wherever it lies
setSegmentPointInOrder(point) ==
  IF selectedTrackId = 0
  THEN UNCHANGED vars
  ELSE /\ trackSegments' =
            With(trackSegments, selectedTrackId,
                 IF currentSegment.start = NoPoint
                 THEN [ start |-> point, end |-> NoPoint ]
                 ELSE IF currentSegment.end = NoPoint
                      THEN [ start |-> currentSegment.start, end |-> point ]
                      ELSE [ start |-> point, end |-> NoPoint ])
       /\ UNCHANGED << storeVars, timerVars, dispatchVars, cacheVars, historyVars, edits,
                       env, call, selectedTrackId >>

\* setSegmentPoint(point)
setSegmentPoint(point) ==
  IF selectedTrackId = 0
  THEN UNCHANGED vars
  ELSE /\ trackSegments' =
            With(trackSegments, selectedTrackId,
                 IF currentSegment.start = NoPoint
                 THEN [ start |-> point, end |-> NoPoint ]
                 ELSE IF currentSegment.end = NoPoint
                      THEN IF point.index < currentSegment.start.index
                           THEN [ start |-> point, end |-> currentSegment.start ]
                           ELSE [ start |-> currentSegment.start, end |-> point ]
                      ELSE [ start |-> point, end |-> NoPoint ])
       /\ UNCHANGED << storeVars, timerVars, dispatchVars, cacheVars, historyVars, edits,
                       env, call, selectedTrackId >>

\* clearSegment(trackId), trackId 0 when the argument is left out
clearSegment(trackId) ==
  LET idToClear == IF trackId # 0 THEN trackId ELSE selectedTrackId
  IN IF idToClear = 0
     THEN UNCHANGED vars
     ELSE /\ trackSegments' = With(trackSegments, idToClear,
                                   [ start |-> NoPoint, end |-> NoPoint ])
          /\ UNCHANGED << storeVars, timerVars, dispatchVars, cacheVars, historyVars, edits,
                          env, call, selectedTrackId >>

NextSelect ==
  \/ \E newTracks \in NewTracks : addTracks(newTracks)
  \/ \E id \in StoreTrackIds : removeTrack(id)
  \/ clearAllTracks
  \/ \E id \in SelectableIds : selectTrack(id)
  \/ \E point \in SelectedPoints : setSegmentPoint(point)
  \/ \E trackId \in SelectableIds : clearSegment(trackId)

SpecSelect == InitSelect /\ [][NextSelect]_vars

\* C30: in every entry of trackSegments end is set only if start is set, and
\* start.index <= end.index when both are set; setSegmentPoint on a selection
\* with both ends set leaves a selection with only start set, the point
\* handed in, and setSegmentPoint changes nothing when no track is selected
C30_SelectionInvariant ==
  /\ [](\A id \in DOMAIN trackSegments :
          /\ trackSegments[id].end # NoPoint => trackSegments[id].start # NoPoint
          /\ (trackSegments[id].start # NoPoint /\ trackSegments[id].end # NoPoint) =>
               trackSegments[id].start.index <= trackSegments[id].end.index)
  /\ [][\A point \in SelectedPoints :
          setSegmentPoint(point) =>
            /\ (selectedTrackId # 0 /\ currentSegment.start # NoPoint
                /\ currentSegment.end # NoPoint) =>
                 trackSegments'[selectedTrackId] = [ start |-> point, end |-> NoPoint ]
            /\ selectedTrackId = 0 => UNCHANGED << storeVars, selectionVars >>]_vars

\* C30: both tracks are loaded and have an entry made by setSegmentPoint: the
\* selection of track 2 is complete with start before end, the selection of the
\* selected track 1 has only its start set
C30_Witness ==
  /\ selectedTrackId = 1
  /\ DOMAIN trackSegments = { 1, 2 }
  /\ trackSegments[1] = [ start |-> [ index |-> MaxPointIndex ], end |-> NoPoint ]
  /\ trackSegments[2] = [ start |-> [ index |-> 0 ], end |-> [ index |-> 1 ] ]
  /\ Len(tracks) = 2

=============================================================================
